---- MODULE Spec2Model ----
(***************************************************************************)
(* Medical-Telegram-Warehouse: the cache facade (api/services/             *)
(* cache_service.py), the rate-limit middleware (api/middleware/           *)
(* rate_limit.py), the caching decorator as used by QueryService and the   *)
(* image classification rules (src/image_classifier.py).                   *)
(*                                                                         *)
(* Python values are pairs <<type name, payload>>; an Optional[int] is the *)
(* empty tuple (None) or a one-element tuple.  Time is unix time in        *)
(* seconds.  The Redis server is the map `store` from keys to a payload    *)
(* and an expiry instant.                                                  *)
(***************************************************************************)
EXTENDS Integers, Sequences, FiniteSets, TLC

\* ------------------------------------------------------------------ bounds
MaxTime == 3
MaxLimit == 2
MaxWindow == 2
MaxDets == 3
MaxMessages == 3
MaxPage == 2

\* --------------------------------------------------------- program constants
CACHE_TTL == 300
CONFIDENCE_THRESHOLD == 30

\* ------------------------------------------------------------ Python values
PyNone == <<"NoneType", 0>>
PyInt(n) == <<"int", n>>
PyList(n) == <<"list", n>>
PyGenerator == <<"generator", 0>>
PyRaise(type, message) == <<"raise", <<type, message>>>>

NoTTL == <<>>

\* pickle.dumps(value): protocol header, the opcodes of the value, STOP.
\* A generator cannot be pickled (TypeError).
PickleOpcodes(v) ==
    CASE v[1] = "NoneType" -> <<78>>
      [] v[1] = "int" -> <<75, v[2]>>
      [] v[1] = "list" -> <<93, 148>> \o [i \in 1..(3 * v[2]) |-> <<75, 0, 97>>[((i - 1) % 3) + 1]]
      [] OTHER -> <<>>

PickleDumps(v) ==
    IF v[1] \in {"NoneType", "int", "list"}
    THEN [raised |-> FALSE, data |-> <<128, 4>> \o PickleOpcodes(v) \o <<46>>]
    ELSE [raised |-> TRUE, data |-> <<>>]

\* pickle.loads(data): the inverse parse; anything else raises.
PickleLoads(data) ==
    IF Len(data) < 4 \/ data[1] # 128 \/ data[2] # 4 \/ data[Len(data)] # 46
    THEN [raised |-> TRUE, val |-> PyNone]
    ELSE LET body == SubSeq(data, 3, Len(data) - 1) IN
         CASE body = <<78>> -> [raised |-> FALSE, val |-> PyNone]
           [] Len(body) = 2 /\ body[1] = 75 -> [raised |-> FALSE, val |-> PyInt(body[2])]
           [] Len(body) >= 2 /\ body[1] = 93 /\ body[2] = 148 /\ (Len(body) - 2) % 3 = 0
                -> [raised |-> FALSE, val |-> PyList((Len(body) - 2) \div 3)]
           [] OTHER -> [raised |-> TRUE, val |-> PyNone]

\* ------------------------------------------------------------- Redis client
\* get_redis_client() returns None when the server cannot be reached and
\* otherwise a client built with decode_responses=True.  CacheService accepts
\* any Optional[Redis]; a client built with the library defaults returns bytes.
RedisNone == "None"
RedisBinary == "Redis(decode_responses=False)"
RedisDecoding == "Redis(decode_responses=True)"

get_redis_client(reachable) == IF reachable THEN RedisDecoding ELSE RedisNone

\* bytes.decode('utf-8') succeeds only on well-formed UTF-8; a byte >= 0x80
\* that is not part of a multi-byte sequence (whose lead byte is >= 0xC2)
\* raises UnicodeDecodeError.  Every pickle starts with 0x80.
Utf8Decodable(data) == \A i \in 1..Len(data) : data[i] < 128

Live(st, t, key) == key \in DOMAIN st /\ st[key].exp > t

\* redis.get(key): None for a missing or expired key, else the payload.
RedisGet(redis, st, t, key, fail) ==
    IF fail THEN [raised |-> TRUE, found |-> FALSE, isStr |-> FALSE, data |-> <<>>]
    ELSE IF ~Live(st, t, key) THEN [raised |-> FALSE, found |-> FALSE, isStr |-> FALSE, data |-> <<>>]
    ELSE IF redis = RedisDecoding
         THEN IF Utf8Decodable(st[key].data)
              THEN [raised |-> FALSE, found |-> TRUE, isStr |-> TRUE, data |-> st[key].data]
              ELSE [raised |-> TRUE, found |-> FALSE, isStr |-> FALSE, data |-> <<>>]
         ELSE [raised |-> FALSE, found |-> TRUE, isStr |-> FALSE, data |-> st[key].data]

\* redis.setex(key, ttl, data): a non-positive ttl is refused by the server.
RedisSetex(st, t, key, ttl, data, fail) ==
    IF fail \/ ttl <= 0 THEN [raised |-> TRUE, store |-> st]
    ELSE [raised |-> FALSE,
          store |-> [k \in DOMAIN st \cup {key} |->
                        IF k = key THEN [data |-> data, exp |-> t + ttl] ELSE st[k]]]

\* redis.delete(*keys): the number of keys removed.
RedisDelete(st, t, keys, fail) ==
    IF fail THEN [raised |-> TRUE, n |-> 0, store |-> st]
    ELSE [raised |-> FALSE,
          n |-> Cardinality({k \in keys : Live(st, t, k)}),
          store |-> [k \in DOMAIN st \ keys |-> st[k]]]

\* redis.keys(pattern) for a pattern "<prefix>*".
RedisKeys(st, t, prefix, fail) ==
    IF fail THEN [raised |-> TRUE, keys |-> {}]
    ELSE [raised |-> FALSE,
          keys |-> {k \in DOMAIN st : /\ Live(st, t, k)
                                      /\ Len(k) >= Len(prefix)
                                      /\ SubSeq(k, 1, Len(prefix)) = prefix}]

\* ------------------------------------------------------------- CacheService
is_available(redis) == redis # RedisNone

\* CacheService.get without the except clause.
CacheGet_uncaught(redis, st, t, key, fail) ==
    IF ~is_available(redis) THEN [raised |-> FALSE, val |-> PyNone]
    ELSE LET r == RedisGet(redis, st, t, key, fail) IN
         IF r.raised THEN [raised |-> TRUE, val |-> PyNone]
         ELSE IF r.found /\ Len(r.data) > 0
              THEN LET p == IF r.isStr THEN [raised |-> TRUE, val |-> PyNone]
                            ELSE PickleLoads(r.data) IN
                   [raised |-> p.raised, val |-> p.val]
              ELSE [raised |-> FALSE, val |-> PyNone]

\* CacheService.get: every exception inside the try block ends in `return None`.
CacheGet(redis, st, t, key, fail) ==
    IF ~is_available(redis) THEN [raised |-> FALSE, val |-> PyNone]
    ELSE LET r == RedisGet(redis, st, t, key, fail) IN
         IF r.raised THEN [raised |-> FALSE, val |-> PyNone]
         ELSE IF r.found /\ Len(r.data) > 0
              THEN LET p == IF r.isStr THEN [raised |-> TRUE, val |-> PyNone]
                            ELSE PickleLoads(r.data) IN
                   IF p.raised THEN [raised |-> FALSE, val |-> PyNone]
                   ELSE [raised |-> FALSE, val |-> p.val]
              ELSE [raised |-> FALSE, val |-> PyNone]

\* CacheService.set: ttl defaults to settings.CACHE_TTL; any exception -> False.
CacheSet(redis, st, t, key, value, ttl, fail) ==
    IF ~is_available(redis) THEN [raised |-> FALSE, ok |-> FALSE, store |-> st]
    ELSE LET secs == IF ttl = NoTTL THEN CACHE_TTL ELSE ttl[1]
             p == PickleDumps(value)
             w == RedisSetex(st, t, key, secs, p.data, fail) IN
         IF p.raised \/ w.raised THEN [raised |-> FALSE, ok |-> FALSE, store |-> st]
         ELSE [raised |-> FALSE, ok |-> TRUE, store |-> w.store]

\* CacheService.delete
CacheDelete(redis, st, t, key, fail) ==
    IF ~is_available(redis) THEN [raised |-> FALSE, ok |-> FALSE, store |-> st]
    ELSE LET d == RedisDelete(st, t, {key}, fail) IN
         IF d.raised THEN [raised |-> FALSE, ok |-> FALSE, store |-> st]
         ELSE [raised |-> FALSE, ok |-> TRUE, store |-> d.store]

\* CacheService.clear_pattern
CacheClearPattern(redis, st, t, prefix, failKeys, failDelete) ==
    IF ~is_available(redis) THEN [raised |-> FALSE, n |-> 0, store |-> st]
    ELSE LET ks == RedisKeys(st, t, prefix, failKeys) IN
         IF ks.raised THEN [raised |-> FALSE, n |-> 0, store |-> st]
         ELSE IF ks.keys # {}
              THEN LET d == RedisDelete(st, t, ks.keys, failDelete) IN
                   IF d.raised THEN [raised |-> FALSE, n |-> 0, store |-> st]
                   ELSE [raised |-> FALSE, n |-> d.n, store |-> d.store]
              ELSE [raised |-> FALSE, n |-> 0, store |-> st]

\* ------------------------------------------------------------------- state
VARIABLES
    now,            \* time.time(), whole seconds
    store,          \* the Redis server: key -> [data, exp]
    redis_client,   \* api/database.py: redis_client = get_redis_client()
    limit,          \* RateLimitMiddleware.limit
    window,         \* RateLimitMiddleware.window
    mw_redis,       \* RateLimitMiddleware.cache.redis
    resp,           \* the response to the last request the middleware handled
    seen,           \* per (client, endpoint): window index, requests handled in it
    svc_redis,      \* CacheService.redis of a facade built by CacheService(client)
    ret,            \* what the last facade operation returned
    shadow,         \* per key: the value and expiry of the last successful set
    calls,          \* two calls of a @cached QueryService method
    keys,           \* the cache keys the wrapper generated for them
    detections_data,\* the detections handed to the classifier: <<class, confidence>>
    analysis,       \* the ImageAnalysis returned by analyze_detections
    overall,        \* what _calculate_overall_confidence returned
    db,             \* the warehouse tables behind the SQLAlchemy session
    reply,          \* the last QueryService or router call and what it produced
    ops,            \* per op of the Dagster job: "pending", "running" or "done"
    outputs,        \* per op: the dictionary it returned
    inflight,       \* per concurrent request: where it is in dispatch, its response
    raw_table,      \* raw.telegram_messages and the loader's open transaction
    load_ret,       \* what the last load_json_file call returned and was given
    steps,          \* the steps FinalYOLOPipeline.run has executed, in order
    run_ret,        \* what FinalYOLOPipeline.run returned
    enhanced        \* the row load_and_classify_results produced

envVars == <<now, store, redis_client>>
limiterVars == <<limit, window, mw_redis, resp, seen>>
facadeVars == <<svc_redis, ret, shadow>>
keyVars == <<calls, keys>>
classifierVars == <<detections_data, analysis, overall>>
queryVars == <<db, reply>>
pipelineVars == <<ops, outputs>>
raceVars == <<inflight>>
loaderVars == <<raw_table, load_ret>>
yoloVars == <<steps, run_ret>>
resultsVars == <<enhanced>>
restVars == <<raceVars, loaderVars, yoloVars, resultsVars>>
vars == <<envVars, limiterVars, facadeVars, keyVars, classifierVars, queryVars, pipelineVars,
          restVars>>

\* CacheService(): the redis_client parameter defaults to None.
CacheServiceDefault == RedisNone

EmptyStore == [k \in {} |-> [data |-> <<>>, exp |-> 0]]

EnvInit ==
    /\ now = 0
    /\ store = EmptyStore
    /\ \E reachable \in BOOLEAN : redis_client = get_redis_client(reachable)

\* ------------------------------------------------------------ rate limiter
ExemptPaths == {"/health", "/metrics", "/"}
ClientHosts == {"10.0.0.1", "10.0.0.2"}
RequestPaths == {"/health", "/api/search/messages"}
LimitedPairs == ClientHosts \X (RequestPaths \ ExemptPaths)

NoHeaders == <<>>
NoCount == <<>>

RateKey(ip, path, window_key) ==
    "rate_limit:" \o ip \o ":" \o path \o ":" \o ToString(window_key)

\* int(self.cache.get(rate_key) or 0)
IntOrZero(v) ==
    CASE v[1] = "NoneType" -> [raised |-> FALSE, n |-> 0]
      [] v[1] = "int" -> [raised |-> FALSE, n |-> v[2]]
      [] v[1] = "list" /\ v[2] = 0 -> [raised |-> FALSE, n |-> 0]
      [] OTHER -> [raised |-> TRUE, n |-> 0]

\* dispatch with the last branch failing closed.
dispatch_failClosed(self_limit, self_window, redis, st, t, ip, path, failGet, failSet) ==
    IF path \in ExemptPaths
    THEN [status |-> 200, hdr |-> NoHeaders, count |-> NoCount, store |-> st]
    ELSE LET window_key == t \div self_window
             rate_key == RateKey(ip, path, window_key)
             reset == (window_key + 1) * self_window IN
         IF is_available(redis)
         THEN LET c == IntOrZero(CacheGet(redis, st, t, rate_key, failGet).val)
                  request_count == c.n IN
              IF c.raised
              THEN [status |-> 500, hdr |-> NoHeaders, count |-> NoCount, store |-> st]
              ELSE IF request_count >= self_limit
              THEN [status |-> 429, hdr |-> <<self_limit, 0, reset>>,
                    count |-> <<request_count>>, store |-> st]
              ELSE [status |-> 200,
                    hdr |-> <<self_limit, self_limit - request_count - 1, reset>>,
                    count |-> <<request_count>>,
                    store |-> CacheSet(redis, st, t, rate_key, PyInt(request_count + 1),
                                       <<self_window * 2>>, failSet).store]
         ELSE [status |-> 429, hdr |-> <<self_limit, 0, reset>>, count |-> NoCount,
               store |-> st]

\* RateLimitMiddleware.dispatch up to the response; status 200 stands for the
\* response of call_next, 429 for the HTTPException, 500 for an uncaught error.
dispatch(self_limit, self_window, redis, st, t, ip, path, failGet, failSet) ==
    IF path \in ExemptPaths
    THEN [status |-> 200, hdr |-> NoHeaders, count |-> NoCount, store |-> st]
    ELSE LET window_key == t \div self_window
             rate_key == RateKey(ip, path, window_key)
             reset == (window_key + 1) * self_window IN
         IF is_available(redis)
         THEN LET c == IntOrZero(CacheGet(redis, st, t, rate_key, failGet).val)
                  request_count == c.n IN
              IF c.raised
              THEN [status |-> 500, hdr |-> NoHeaders, count |-> NoCount, store |-> st]
              ELSE IF request_count >= self_limit
              THEN [status |-> 429, hdr |-> <<self_limit, 0, reset>>,
                    count |-> <<request_count>>, store |-> st]
              ELSE [status |-> 200,
                    hdr |-> <<self_limit, self_limit - request_count - 1, reset>>,
                    count |-> <<request_count>>,
                    store |-> CacheSet(redis, st, t, rate_key, PyInt(request_count + 1),
                                       <<self_window * 2>>, failSet).store]
         ELSE [status |-> 200, hdr |-> NoHeaders, count |-> NoCount, store |-> st]

NoResponse ==
    [ip |-> "", path |-> "", status |-> 0, hdr |-> NoHeaders, count |-> NoCount,
     win |-> 0, nth |-> 0, clean |-> FALSE, failGet |-> FALSE, failSet |-> FALSE]

LimiterInit ==
    /\ limit \in 1..MaxLimit
    /\ window \in 1..MaxWindow
    /\ mw_redis = CacheServiceDefault
    /\ resp = NoResponse
    /\ seen = [p \in LimitedPairs |-> [win |-> -1, n |-> 0, clean |-> TRUE]]

\* One request handled by the middleware.  failGet/failSet: the Redis server
\* refuses the connection during this request.
Dispatch(ip, path, failGet, failSet) ==
    LET d == dispatch(limit, window, mw_redis, store, now, ip, path, failGet, failSet)
        wk == now \div window
        pair == <<ip, path>>
        same == path \notin ExemptPaths /\ seen[pair].win = wk
        nth == IF path \in ExemptPaths THEN 0
               ELSE IF same THEN seen[pair].n + 1 ELSE 1
        clean == /\ ~failGet /\ ~failSet
                 /\ (same => seen[pair].clean) IN
    /\ nth <= limit + 1
    /\ store' = d.store
    /\ resp' = [ip |-> ip, path |-> path, status |-> d.status, hdr |-> d.hdr,
                count |-> d.count, win |-> wk, nth |-> nth, clean |-> clean,
                failGet |-> failGet, failSet |-> failSet]
    /\ seen' = IF path \in ExemptPaths THEN seen
               ELSE [seen EXCEPT ![pair] = [win |-> wk, n |-> nth, clean |-> clean]]
    /\ UNCHANGED <<now, redis_client, limit, window, mw_redis>>
    /\ UNCHANGED <<facadeVars, keyVars, classifierVars, queryVars, pipelineVars, restVars>>

LimiterIdle ==
    /\ limit = 1
    /\ window = 1
    /\ mw_redis = CacheServiceDefault
    /\ resp = NoResponse
    /\ seen = [p \in LimitedPairs |-> [win |-> -1, n |-> 0, clean |-> TRUE]]

\* ------------------------------------------------------------ cache facade
FacadeKeys == {"top_products:a", "visual_content:b"}
FacadePrefixes == {"top_products:", "visual"}
FacadeValues == {PyNone, PyInt(7), PyGenerator}
FacadeTTLs == {NoTTL, <<0>>, <<1>>}

PyBool(b) == <<"bool", IF b THEN 1 ELSE 0>>

\* The record of one operation.  hit and memo say what the last successful
\* set under the key stored, if its TTL has not elapsed when the operation runs.
Outcome(op, key, val, raised, failed, changed) ==
    [op |-> op, key |-> key, val |-> val, raised |-> raised, failed |-> failed,
     changed |-> changed, executed |-> 0, result |-> PyNone,
     hit |-> Live(shadow, now, key),
     memo |-> IF Live(shadow, now, key) THEN shadow[key].data ELSE PyNone,
     stored |-> FALSE]

NoReturn ==
    [op |-> "", key |-> "", val |-> PyNone, raised |-> FALSE, failed |-> FALSE,
     changed |-> FALSE, executed |-> 0, result |-> PyNone, hit |-> FALSE,
     memo |-> PyNone, stored |-> FALSE]

\* CacheService(redis_client) built with no client, with the application's
\* client, or with a client of the library's defaults.
FacadeInit ==
    /\ svc_redis \in {CacheServiceDefault, redis_client, RedisBinary}
    /\ ret = NoReturn
    /\ shadow = EmptyStore

FacadeIdle ==
    /\ svc_redis = CacheServiceDefault
    /\ ret = NoReturn
    /\ shadow = EmptyStore

Get(key, fail) ==
    LET r == CacheGet(svc_redis, store, now, key, fail) IN
    /\ ret' = Outcome("get", key, r.val, r.raised, fail, FALSE)
    /\ UNCHANGED <<envVars, limiterVars, keyVars, classifierVars, svc_redis, shadow,
                 queryVars, pipelineVars, restVars>>

Set(key, value, ttl, fail) ==
    LET r == CacheSet(svc_redis, store, now, key, value, ttl, fail)
        secs == IF ttl = NoTTL THEN CACHE_TTL ELSE ttl[1] IN
    /\ store' = r.store
    /\ ret' = Outcome("set", key, PyBool(r.ok), r.raised, fail, r.store # store)
    /\ shadow' = IF r.ok
                 THEN [k \in DOMAIN shadow \cup {key} |->
                          IF k = key THEN [data |-> value, exp |-> now + secs]
                          ELSE shadow[k]]
                 ELSE shadow
    /\ UNCHANGED <<now, redis_client, limiterVars, keyVars, classifierVars, svc_redis,
                 queryVars, pipelineVars, restVars>>

Delete(key, fail) ==
    LET r == CacheDelete(svc_redis, store, now, key, fail) IN
    /\ store' = r.store
    /\ ret' = Outcome("delete", key, PyBool(r.ok), r.raised, fail, r.store # store)
    /\ shadow' = IF r.ok THEN [k \in DOMAIN shadow \ {key} |-> shadow[k]] ELSE shadow
    /\ UNCHANGED <<now, redis_client, limiterVars, keyVars, classifierVars, svc_redis,
                 queryVars, pipelineVars, restVars>>

ClearPattern(prefix, failKeys, failDelete) ==
    LET r == CacheClearPattern(svc_redis, store, now, prefix, failKeys, failDelete) IN
    /\ store' = r.store
    /\ ret' = Outcome("clear_pattern", prefix, PyInt(r.n), r.raised,
                       failKeys \/ failDelete, r.store # store)
    /\ shadow' = [k \in DOMAIN r.store \cap DOMAIN shadow |-> shadow[k]]
    /\ UNCHANGED <<now, redis_client, limiterVars, keyVars, classifierVars, svc_redis,
                 queryVars, pipelineVars, restVars>>

\* ------------------------------------------------------ generate_key, cached
\* str(arg): an object without __str__ prints its type and its address.
Str(v) ==
    CASE v[1] = "int" -> ToString(v[2])
      [] v[1] = "str" -> v[2]
      [] v[1] = "QueryService" ->
            "<api.services.query_service.QueryService object at " \o v[2] \o ">"
      [] OTHER -> "None"

\* The keyword names of QueryService.get_top_products, in string order.
KeywordOrder == <<"channel", "limit", "min_mentions", "timeframe">>
Rank(name) == CHOOSE i \in 1..Len(KeywordOrder) : KeywordOrder[i] = name

\* sorted(kwargs.items()): kwargs is the sequence of (name, value) pairs in the
\* order the call site wrote them; the names are distinct.
SortedItems(kwargs) ==
    LET items == {kwargs[i] : i \in 1..Len(kwargs)} IN
    [i \in 1..Len(kwargs) |->
        CHOOSE p \in items :
            Cardinality({q \in items : Rank(q[1]) < Rank(p[1])}) = i - 1]

RECURSIVE Join(_)
Join(parts) ==
    IF Len(parts) = 0 THEN ""
    ELSE IF Len(parts) = 1 THEN parts[1]
    ELSE parts[1] \o ":" \o Join(Tail(parts))

\* hashlib.md5(s.encode()).hexdigest(): a fixed function of the string.
Md5Hex(s) == "md5(" \o s \o ")"

\* CacheService.generate_key(prefix, *args, **kwargs)
generate_key(prefix, args, kwargs) ==
    LET sorted == SortedItems(kwargs)
        key_parts == <<prefix>>
                     \o [i \in 1..Len(args) |-> Str(args[i])]
                     \o [i \in 1..Len(sorted) |-> sorted[i][1] \o ":" \o Str(sorted[i][2])]
    IN Md5Hex(Join(key_parts))

\* @cached("top_products", ttl=600) on QueryService.get_top_products
TopProductsPrefix == "top_products"
TopProductsTTL == 600

\* cached(prefix, ttl).wrapper(*args, **kwargs): args[1] is self; `result` is
\* what func returns if it is executed, or <<"raise", exception>> when func
\* raises: the wrapper has no handler, so the exception leaves it before set.
wrapper(prefix, ttl, st, t, args, kwargs, result, fail) ==
    LET redis == CacheServiceDefault
        key == generate_key(prefix, args, kwargs)
        cached_result == CacheGet(redis, st, t, key, fail)
        w == CacheSet(redis, st, t, key, result, <<ttl>>, fail) IN
    IF cached_result.raised
    THEN [raised |-> TRUE, key |-> key, val |-> PyNone, executed |-> 0,
          stored |-> FALSE, store |-> st]
    ELSE IF cached_result.val # PyNone
    THEN [raised |-> FALSE, key |-> key, val |-> cached_result.val, executed |-> 0,
          stored |-> FALSE, store |-> st]
    ELSE IF result[1] = "raise"
    THEN [raised |-> TRUE, key |-> key, val |-> result, executed |-> 1,
          stored |-> FALSE, store |-> st]
    ELSE [raised |-> w.raised, key |-> key, val |-> result, executed |-> 1,
          stored |-> w.ok, store |-> w.store]

Instances == {<<"QueryService", "0x7f3a10">>, <<"QueryService", "0x7f3a58">>}
PositionalArgs == {<<>>, <<PyInt(5)>>}
KeywordArgs ==
    {<<>>,
     <<<<"timeframe", <<"str", "week">>>>>>,
     <<<<"timeframe", <<"str", "week">>>>, <<"channel", <<"str", "chemed">>>>>>,
     <<<<"channel", <<"str", "chemed">>>>, <<"timeframe", <<"str", "week">>>>>>}
FunctionResults == {PyNone, PyList(0), PyList(1)}

\* One call of QueryService(db).get_top_products(*args, **kwargs) through the
\* decorator.
CachedCall(self, args, kwargs, result, fail) ==
    LET r == wrapper(TopProductsPrefix, TopProductsTTL, store, now,
                     <<self>> \o args, kwargs, result, fail)
        hit == Live(shadow, now, r.key) IN
    /\ store' = r.store
    /\ ret' = [op |-> "cached", key |-> r.key, val |-> r.val, raised |-> r.raised,
               failed |-> fail, changed |-> r.store # store, executed |-> r.executed,
               result |-> result, hit |-> hit,
               memo |-> IF hit THEN shadow[r.key].data ELSE PyNone,
               stored |-> r.stored]
    /\ shadow' = IF r.stored
                 THEN [k \in DOMAIN shadow \cup {r.key} |->
                          IF k = r.key THEN [data |-> result, exp |-> now + TopProductsTTL]
                          ELSE shadow[k]]
                 ELSE shadow
    /\ UNCHANGED <<now, redis_client, limiterVars, keyVars, classifierVars, svc_redis,
                 queryVars, pipelineVars, restVars>>

\* The logical call: the method's own arguments, the keywords as a set.
Logical(c) == <<c.args, {c.kwargs[i] : i \in 1..Len(c.kwargs)}>>

MethodCalls == [self : Instances, args : PositionalArgs, kwargs : KeywordArgs]

KeysInit ==
    /\ calls \in MethodCalls \X MethodCalls
    /\ keys = <<>>

KeysIdle ==
    /\ calls = <<>>
    /\ keys = <<>>

\* Both calls reach line 104 of the wrapper.
GenerateKeys ==
    /\ keys = <<>>
    /\ calls # <<>>
    /\ keys' = [i \in 1..2 |->
                   generate_key(TopProductsPrefix, <<calls[i].self>> \o calls[i].args,
                                calls[i].kwargs)]
    /\ UNCHANGED <<envVars, limiterVars, facadeVars, classifierVars, calls,
                 queryVars, pipelineVars, restVars>>

\* -------------------------------------------------------- image classifier
\* Confidences are hundredths (0.3 is 30); a confidence_score is thousandths.
RECURSIVE SumConfidence(_)
SumConfidence(dets) ==
    IF Len(dets) = 0 THEN 0 ELSE dets[1][2] + SumConfidence(Tail(dets))

RECURSIVE Filter(_, _)
Filter(dets, keep) ==
    IF Len(dets) = 0 THEN <<>>
    ELSE IF dets[1] \in keep THEN <<dets[1]>> \o Filter(Tail(dets), keep)
    ELSE Filter(Tail(dets), keep)

\* MedicalImageClassifier.MEDICAL_RELEVANT_CLASSES
ClassTags(c) ==
    CASE c = "person" -> {"person", "human"}
      [] c = "bottle" -> {"product", "container", "bottle"}
      [] c = "cup" -> {"product", "container", "cup"}
      [] c = "wine glass" -> {"product", "container", "glass"}
      [] c = "handbag" -> {"cosmetic", "accessory", "bag"}
      [] c = "suitcase" -> {"storage", "travel"}
      [] c = "book" -> {"documentation", "manual"}
      [] c = "cell phone" -> {"communication", "tech"}
      [] c = "remote" -> {"device", "electronic"}
      [] c = "chair" -> {"setting", "office"}
      [] c = "dining table" -> {"setting", "home"}
      [] c = "bed" -> {"setting", "medical"}
      [] c = "toilet" -> {"setting", "bathroom"}
      [] c = "tv" -> {"setting", "home"}
      [] c = "banana" -> {"ingredient", "food", "fruit"}
      [] c = "apple" -> {"ingredient", "food", "fruit"}
      [] c = "orange" -> {"ingredient", "food", "fruit"}
      [] c = "broccoli" -> {"ingredient", "food", "vegetable"}
      [] c = "carrot" -> {"ingredient", "food", "vegetable"}
      [] c = "dog" -> {"animal", "pet"}
      [] c = "cat" -> {"animal", "pet"}
      [] c = "bird" -> {"animal", "wildlife"}
      [] OTHER -> {}

MEDICAL_RELEVANT_CLASSES ==
    {"person", "bottle", "cup", "wine glass", "handbag", "suitcase", "book",
     "cell phone", "remote", "chair", "dining table", "bed", "toilet", "tv",
     "banana", "apple", "orange", "broccoli", "carrot", "dog", "cat", "bird"}

ClassesOf(dets) == {dets[i][1] : i \in 1..Len(dets)}
CountOf(dets, c) == Cardinality({i \in 1..Len(dets) : dets[i][1] = c})

\* _categorize_image with has_medical_setting not requiring a person.
categorize_image_settingWithoutPerson(dets) ==
    LET has_person == CountOf(dets, "person") > 0
        has_product == ClassesOf(dets) \cap {"bottle", "cup", "handbag", "wine glass"} # {}
        has_food == ClassesOf(dets)
                       \cap {"banana", "apple", "orange", "broccoli", "carrot"} # {}
        has_medical_setting == ClassesOf(dets) \cap {"bed", "chair"} # {}
    IN IF has_person /\ has_product THEN <<"promotional", 80>>
       ELSE IF has_product /\ ~has_person THEN <<"product_display", 70>>
       ELSE IF has_person /\ ~has_product /\ ~has_medical_setting THEN <<"lifestyle", 60>>
       ELSE IF has_food THEN <<"ingredient_showcase", 70>>
       ELSE IF has_medical_setting THEN <<"medical_context", 60>>
       ELSE IF CountOf(dets, "person") >= 2 THEN <<"before_after", 50>>
       ELSE <<"unknown", 30>>

\* MedicalImageClassifier._categorize_image: <<category, category confidence>>
categorize_image(dets) ==
    LET has_person == CountOf(dets, "person") > 0
        has_product == ClassesOf(dets) \cap {"bottle", "cup", "handbag", "wine glass"} # {}
        has_food == ClassesOf(dets)
                       \cap {"banana", "apple", "orange", "broccoli", "carrot"} # {}
        has_medical_setting == ClassesOf(dets) \cap {"bed", "chair"} # {} /\ has_person
    IN IF has_person /\ has_product THEN <<"promotional", 80>>
       ELSE IF has_product /\ ~has_person THEN <<"product_display", 70>>
       ELSE IF has_person /\ ~has_product /\ ~has_medical_setting THEN <<"lifestyle", 60>>
       ELSE IF has_food THEN <<"ingredient_showcase", 70>>
       ELSE IF has_medical_setting THEN <<"medical_context", 60>>
       ELSE IF CountOf(dets, "person") >= 2 THEN <<"before_after", 50>>
       ELSE <<"unknown", 30>>

\* MedicalImageClassifier._extract_business_tags (the list, as a set)
extract_business_tags(dets) ==
    LET tags == UNION {ClassTags(dets[i][1]) : i \in 1..Len(dets)}
        n == Len(dets)
        total == SumConfidence(dets) IN
    IF n = 0 THEN tags
    ELSE IF total > 80 * n THEN tags \cup {"high_confidence"}
    ELSE IF total > 50 * n THEN tags \cup {"medium_confidence"}
    ELSE tags \cup {"low_confidence"}

\* round(x, 3) of x = num / den thousandths.  Exactly between two thousandths
\* the binary floating-point value of x decides the direction: tieUp.
Round3(num, den, tieUp) ==
    LET q == num \div den
        r == num % den IN
    IF 2 * r < den THEN q
    ELSE IF 2 * r > den THEN q + 1
    ELSE IF tieUp THEN q + 1 ELSE q

Min(a, b) == IF a <= b THEN a ELSE b

\* _calculate_overall_confidence without min(..., 1.0).
calculate_overall_confidence_unclamped(dets, tieUp) ==
    IF Len(dets) = 0 THEN 0
    ELSE LET n == Len(dets)
             high_conf_count == Cardinality({i \in 1..n : dets[i][2] > 70})
             bonus == Min(high_conf_count * 50, 200)
         IN Round3(10 * SumConfidence(dets) + bonus * n, n, tieUp)

\* MedicalImageClassifier._calculate_overall_confidence, in thousandths:
\* base_confidence + bonus is (10 * sum + bonus * n) / n thousandths.
calculate_overall_confidence(dets, tieUp) ==
    IF Len(dets) = 0 THEN 0
    ELSE LET n == Len(dets)
             high_conf_count == Cardinality({i \in 1..n : dets[i][2] > 70})
             bonus == Min(high_conf_count * 50, 200)
         IN Round3(Min(10 * SumConfidence(dets) + bonus * n, 1000 * n), n, tieUp)

\* MedicalImageClassifier._create_unknown_analysis
create_unknown_analysis(dets) ==
    [detections |-> dets, category |-> "unknown", confidence_score |-> 0,
     business_tags |-> {"no_detections", "low_confidence"},
     category_confidence |-> 0, detection_count |-> 0]

Relevant(dets) ==
    {d \in {dets[i] : i \in 1..Len(dets)} :
        d[2] >= CONFIDENCE_THRESHOLD /\ d[1] \in MEDICAL_RELEVANT_CLASSES}

\* analyze_detections without the early return for an empty list.
analyze_detections_noEarlyReturn(data, tieUp) ==
    LET detections == Filter(data, Relevant(data))
        cat == categorize_image(detections) IN
    [detections |-> detections, category |-> cat[1],
     confidence_score |-> calculate_overall_confidence(detections, tieUp),
     business_tags |-> extract_business_tags(detections),
     category_confidence |-> cat[2], detection_count |-> Len(detections)]

\* MedicalImageClassifier.analyze_detections
analyze_detections(data, tieUp) ==
    LET detections == Filter(data, Relevant(data)) IN
    IF Len(detections) = 0 THEN create_unknown_analysis(detections)
    ELSE LET cat == categorize_image(detections) IN
         [detections |-> detections, category |-> cat[1],
          confidence_score |-> calculate_overall_confidence(detections, tieUp),
          business_tags |-> extract_business_tags(detections),
          category_confidence |-> cat[2], detection_count |-> Len(detections)]

DetectionClasses == {"person", "bottle", "banana", "bed", "dog", "car"}
DetectionConfidences == {20, 30, 90}
ConfidenceGrid == {0, 20, 30, 70, 71, 100}

ListsOver(S) == UNION {[1..n -> S] : n \in 0..MaxDets}

NoAnalysis ==
    [detections |-> <<>>, category |-> "", confidence_score |-> 0,
     business_tags |-> {}, category_confidence |-> 0, detection_count |-> 0]
NotScored == <<>>

ClassifierIdle ==
    /\ detections_data = <<>>
    /\ analysis = NoAnalysis
    /\ overall = NotScored

Analyze(tieUp) ==
    /\ analysis = NoAnalysis
    /\ analysis' = analyze_detections(detections_data, tieUp)
    /\ UNCHANGED <<envVars, limiterVars, facadeVars, keyVars, detections_data, overall,
                 queryVars, pipelineVars, restVars>>

Score(tieUp) ==
    /\ overall = NotScored
    /\ overall' = <<calculate_overall_confidence(detections_data, tieUp)>>
    /\ UNCHANGED <<envVars, limiterVars, facadeVars, keyVars, detections_data, analysis,
                 queryVars, pipelineVars, restVars>>

\* ------------------------------------------------------------ QueryService
\* A message text is the sequence of its words (the maximal runs of letters
\* and digits, in order); NULL and the empty text are the empty sequence.  A
\* row of the fact table carries the columns of its joined dimension rows:
\* the channel name and the age of DimDate.full_date in days.
LowerAlphabet == "abcdefghijklmnopqrstuvwxyz"
UpperAlphabet == "ABCDEFGHIJKLMNOPQRSTUVWXYZ"

CharAt(s, i) == SubSeq(s, i, i)
LowerOf ==
    [c \in {CharAt(UpperAlphabet, i) : i \in 1..Len(UpperAlphabet)} |->
        CharAt(LowerAlphabet, CHOOSE i \in 1..Len(UpperAlphabet) : CharAt(UpperAlphabet, i) = c)]
UpperOf ==
    [c \in {CharAt(LowerAlphabet, i) : i \in 1..Len(LowerAlphabet)} |->
        CharAt(UpperAlphabet, CHOOSE i \in 1..Len(LowerAlphabet) : CharAt(LowerAlphabet, i) = c)]

LowerChar(c) == IF c \in DOMAIN LowerOf THEN LowerOf[c] ELSE c
UpperChar(c) == IF c \in DOMAIN UpperOf THEN UpperOf[c] ELSE c
IsLetter(c) == c \in DOMAIN LowerOf \/ c \in DOMAIN UpperOf

\* str.lower()
RECURSIVE StrLower(_)
StrLower(s) ==
    IF Len(s) = 0 THEN ""
    ELSE LowerChar(CharAt(s, 1)) \o StrLower(SubSeq(s, 2, Len(s)))

\* str.title(): a letter is upper-cased when it does not follow a letter and
\* lower-cased when it does.
RECURSIVE TitleFrom(_, _)
TitleFrom(s, afterLetter) ==
    IF Len(s) = 0 THEN ""
    ELSE LET c == CharAt(s, 1) IN
         (IF afterLetter THEN LowerChar(c) ELSE UpperChar(c))
            \o TitleFrom(SubSeq(s, 2, Len(s)), IsLetter(c))
StrTitle(s) == TitleFrom(s, FALSE)

\* the string matches [a-z]+
IsLowerWord(w) ==
    Len(w) > 0 /\ \A i \in 1..Len(w) : CharAt(w, i) \in DOMAIN UpperOf

\* product_patterns: the alternatives of each \b(...)\b, in list order; the
\* sixth pattern is \b(vitamin\s+[a-z]+)\b.
product_patterns ==
    <<{"paracetamol", "panadol"}, {"amoxicillin", "amox"}, {"cephalexin", "keflex"},
      {"metformin", "glucophage"}, {"insulin"}, {"vitamin"},
      {"cream", "ointment", "gel"}, {"syrup", "suspension"},
      {"tablet", "pill", "capsule"}, {"injection", "injectable"}>>
VitaminPattern == 6

\* re.findall(pattern, text_lower): the non-overlapping matches, left to right.
RECURSIVE FindAll(_, _, _)
FindAll(p, words, from) ==
    IF from > Len(words) THEN <<>>
    ELSE IF p = VitaminPattern
    THEN IF words[from] = "vitamin" /\ from < Len(words) /\ IsLowerWord(words[from + 1])
         THEN <<"vitamin " \o words[from + 1]>> \o FindAll(p, words, from + 2)
         ELSE FindAll(p, words, from + 1)
    ELSE IF words[from] \in product_patterns[p]
         THEN <<words[from]>> \o FindAll(p, words, from + 1)
         ELSE FindAll(p, words, from + 1)

\* the matches of one message, pattern by pattern
RECURSIVE MatchesOf(_, _)
MatchesOf(text, p) ==
    IF p > Len(product_patterns) THEN <<>>
    ELSE FindAll(p, [i \in 1..Len(text) |-> StrLower(text[i])], 1)
            \o MatchesOf(text, p + 1)

\* rows of marts.fct_messages with their channel and the age of their date
ProductRows ==
    {[text |-> <<"Paracetamol", "500mg", "available">>, channel |-> "chemed", age |-> 1],
     [text |-> <<"paracetamol", "in", "stock">>, channel |-> "chemed", age |-> 10],
     [text |-> <<"Amoxicillin", "250mg">>, channel |-> "lobelia", age |-> 1],
     [text |-> <<"PANADOL", "syrup", "Amox">>, channel |-> "lobelia", age |-> 40],
     [text |-> <<>>, channel |-> "chemed", age |-> 1],
     [text |-> <<"Vitamin", "C", "tablets", "vitamin", "b12">>, channel |-> "chemed", age |-> 10],
     [text |-> <<"insulin", "Insulin", "gel">>, channel |-> "lobelia", age |-> 1]}

\* MatchesOf and str.title() tabulated over the texts of ProductRows
MatchesIn == [text \in {r.text : r \in ProductRows} |-> MatchesOf(text, 1)]
TitleOf ==
    [m \in UNION {{MatchesIn[t][i] : i \in 1..Len(MatchesIn[t])} : t \in DOMAIN MatchesIn}
        |-> StrTitle(m)]

\* the matches of all messages of the query, in the order the loop sees them
RECURSIVE AllMatches(_)
AllMatches(rows) ==
    IF Len(rows) = 0 THEN <<>>
    ELSE (IF Len(rows[1].text) = 0 THEN <<>> ELSE MatchesIn[rows[1].text])
            \o AllMatches(Tail(rows))

\* product_counts[match] = product_counts.get(match, 0) + 1 on a dict, which
\* keeps its keys in insertion order: a sequence of <<product, count>>.
Bump(counts, m) ==
    IF \E i \in 1..Len(counts) : counts[i][1] = m
    THEN [i \in 1..Len(counts) |->
             IF counts[i][1] = m THEN <<m, counts[i][2] + 1>> ELSE counts[i]]
    ELSE Append(counts, <<m, 1>>)

RECURSIVE Tally(_, _)
Tally(counts, matches) ==
    IF Len(matches) = 0 THEN counts
    ELSE Tally(Bump(counts, matches[1]), Tail(matches))

RemoveAt(s, i) == SubSeq(s, 1, i - 1) \o SubSeq(s, i + 1, Len(s))

\* sorted(items, key=lambda x: x[1], reverse=True): stable, so equal counts
\* keep their order.
RECURSIVE SortedByCountDesc(_)
SortedByCountDesc(items) ==
    IF Len(items) = 0 THEN <<>>
    ELSE LET i == CHOOSE i \in 1..Len(items) :
                      \A j \in 1..Len(items) :
                          /\ items[j][2] <= items[i][2]
                          /\ (j < i => items[j][2] < items[i][2])
         IN <<items[i]>> \o SortedByCountDesc(RemoveAt(items, i))

Max(a, b) == IF a >= b THEN a ELSE b

\* SUM(column) over rows
RECURSIVE SumOver(_, _)
SumOver(rows, column) ==
    IF Len(rows) = 0 THEN 0 ELSE rows[1][column] + SumOver(Tail(rows), column)

\* seq[:n]
Prefix(s, n) ==
    IF n >= 0 THEN SubSeq(s, 1, Min(n, Len(s))) ELSE SubSeq(s, 1, Max(0, Len(s) + n))

\* the rows of query.all(): the optional joins and filters on the date and
\* the channel.  Only 'week' and 'month' set a cutoff date.
TopProductsQuery(rows, timeframe, channel) ==
    LET cutoff == IF timeframe = <<"week">> THEN <<7>>
                  ELSE IF timeframe = <<"month">> THEN <<30>>
                  ELSE <<>>
        keep == {r \in {rows[i] : i \in 1..Len(rows)} :
                    /\ (cutoff # <<>> => r.age <= cutoff[1])
                    /\ (channel # <<>> => r.channel = channel[1])}
    IN Filter(rows, keep)

FormatProducts(sorted_products, min_mentions) ==
    LET kept == Filter(sorted_products,
                       {s \in {sorted_products[i] : i \in 1..Len(sorted_products)} :
                           s[2] >= min_mentions})
    IN [i \in 1..Len(kept) |->
           [product_name |-> TitleOf[kept[i][1]], mention_count |-> kept[i][2]]]

\* get_top_products without the sort: the products in first-seen order.
get_top_products_unsorted(rows, lim, timeframe, channel, min_mentions) ==
    LET product_counts == Tally(<<>>, AllMatches(TopProductsQuery(rows, timeframe, channel)))
        sorted_products == Prefix(product_counts, lim)
    IN FormatProducts(sorted_products, min_mentions)

\* QueryService.get_top_products (the decorated function)
get_top_products(rows, lim, timeframe, channel, min_mentions) ==
    LET product_counts == Tally(<<>>, AllMatches(TopProductsQuery(rows, timeframe, channel)))
        sorted_products == Prefix(SortedByCountDesc(product_counts), lim)
    IN FormatProducts(sorted_products, min_mentions)

NoReply == [op |-> ""]
EmptyDb == [channels |-> {}, messages |-> <<>>]

QueryIdle ==
    /\ db = EmptyDb
    /\ reply = NoReply

OptStr(o) == IF o = <<>> THEN PyNone ELSE <<"str", o[1]>>

ProductLimits == 1..MaxMessages
MinMentions == 1..3
Timeframes == {<<>>, <<"day">>, <<"week">>, <<"month">>, <<"all">>}
ChannelFilters == {<<>>, <<"chemed">>}

TablesOver(rows) == UNION {[1..n -> rows] : n \in 0..MaxMessages}

\* One call QueryService(db).get_top_products(limit=, timeframe=, channel=,
\* min_mentions=) through the decorator.
GetTopProducts(self, lim, timeframe, channel, min_mentions) ==
    LET result == <<"list", get_top_products(db.messages, lim, timeframe, channel,
                                             min_mentions)>>
        kwargs == <<<<"limit", PyInt(lim)>>, <<"timeframe", OptStr(timeframe)>>,
                    <<"channel", OptStr(channel)>>, <<"min_mentions", PyInt(min_mentions)>>>>
        r == wrapper(TopProductsPrefix, TopProductsTTL, store, now, <<self>>, kwargs,
                     result, FALSE)
    IN /\ reply = NoReply
       /\ reply' = [op |-> "get_top_products", limit |-> lim, timeframe |-> timeframe,
                    channel |-> channel, min_mentions |-> min_mentions,
                    raised |-> r.raised, executed |-> r.executed, val |-> r.val[2]]
       /\ store' = r.store
       /\ UNCHANGED <<now, redis_client, limiterVars, facadeVars, keyVars, classifierVars,
                      db, pipelineVars, restVars>>


\* ------------------------------------------------- get_channel_activity
ChannelActivityPrefix == "channel_activity"
ChannelActivityTTL == 300
DefaultActivityDays == 30

SumViews(rows) == SumOver(rows, "view_count")

\* the sequences that list every row of S once
Orderings(S) ==
    {f \in [1..Cardinality(S) -> S] : \A i, j \in 1..Cardinality(S) : i # j => f[i] # f[j]}

PeakHoursLimit == 3

\* SELECT EXTRACT(HOUR FROM full_date), COUNT(*) ... WHERE channel_key = :k
\* GROUP BY hour: one row per hour of the channel's messages, of any date
HourCounts(rows) ==
    {[hour |-> h, post_count |-> Cardinality({i \in 1..Len(rows) : rows[i].hour = h})] :
        h \in {rows[i].hour : i \in 1..Len(rows)}}

\* ORDER BY post_count DESC LIMIT 3: hours with equal counts in any order
TopHours(rows) ==
    {Prefix(f, PeakHoursLimit) :
        f \in {g \in Orderings(HourCounts(rows)) :
                  \A i, j \in 1..Len(g) : i < j => g[i].post_count >= g[j].post_count}}

\* the rows the peak hours statement can return for the channel
PeakHoursQuery(tables, channel_name) ==
    TopHours(Filter(tables.messages,
                    {r \in {tables.messages[i] : i \in 1..Len(tables.messages)} :
                        r.channel = channel_name}))

\* get_channel_activity without the check of the channel lookup.
get_channel_activity_noCheck(tables, channel_name, start_age, end_age, peak) ==
    LET start == IF start_age = <<>> THEN DefaultActivityDays ELSE start_age[1]
        end == IF end_age = <<>> THEN 0 ELSE end_age[1]
        rows == Filter(tables.messages,
                       {r \in {tables.messages[i] : i \in 1..Len(tables.messages)} :
                           r.channel = channel_name /\ r.age <= start /\ r.age >= end})
    IN [queries |-> <<"channel", "activity", "peak_hours", "totals">>,
        outcome |-> <<"dict", [channel |-> channel_name, total_posts |-> Len(rows),
                               total_views |-> SumViews(rows),
                               peak_hours |-> [i \in 1..Len(peak) |-> peak[i].hour]]>>]

\* QueryService.get_channel_activity (the decorated function): the queries it
\* ran and what it returned or raised.  Dates are ages in days; `peak` is what
\* the peak hours statement returned.
get_channel_activity(tables, channel_name, start_age, end_age, peak) ==
    LET start == IF start_age = <<>> THEN DefaultActivityDays ELSE start_age[1]
        end == IF end_age = <<>> THEN 0 ELSE end_age[1]
        rows == Filter(tables.messages,
                       {r \in {tables.messages[i] : i \in 1..Len(tables.messages)} :
                           r.channel = channel_name /\ r.age <= start /\ r.age >= end})
    IN IF channel_name \notin tables.channels
       THEN [queries |-> <<"channel">>,
             outcome |-> PyRaise("ValueError", "Channel " \o channel_name \o " not found")]
       ELSE [queries |-> <<"channel", "activity", "peak_hours", "totals">>,
             outcome |-> <<"dict", [channel |-> channel_name, total_posts |-> Len(rows),
                                    total_views |-> SumViews(rows),
                                    peak_hours |-> [i \in 1..Len(peak) |-> peak[i].hour]]>>]

ActivityRows ==
    {[channel |-> "chemed", age |-> 1, view_count |-> 5, hour |-> 9],
     [channel |-> "chemed", age |-> 40, view_count |-> 7, hour |-> 14],
     [channel |-> "lobelia", age |-> 1, view_count |-> 0, hour |-> 9],
     [channel |-> "lobelia", age |-> 20, view_count |-> 3, hour |-> 14]}
ChannelNames == {"chemed", "lobelia", "ghost"}
AgeBounds == {<<>>, <<7>>}

\* One call QueryService(db).get_channel_activity(channel_name, start_date,
\* end_date) through the decorator.
GetChannelActivity(self, channel_name, start_age, end_age) ==
    /\ reply = NoReply
    /\ \E peak \in PeakHoursQuery(db, channel_name) :
          LET f == get_channel_activity(db, channel_name, start_age, end_age, peak)
              r == wrapper(ChannelActivityPrefix, ChannelActivityTTL, store, now,
                           <<self, <<"str", channel_name>>>>, <<>>, f.outcome, FALSE)
          IN /\ reply' = [op |-> "get_channel_activity", channel_name |-> channel_name,
                          start_age |-> start_age, end_age |-> end_age,
                          raised |-> r.raised, executed |-> r.executed, val |-> r.val,
                          queries |-> IF r.executed = 1 THEN f.queries ELSE <<>>,
                          stored |-> r.stored, changed |-> r.store # store]
             /\ store' = r.store
    /\ UNCHANGED <<now, redis_client, limiterVars, facadeVars, keyVars, classifierVars,
                   db, pipelineVars, restVars>>

\* ------------------------------------------------------- search_messages
\* str.strip() for blanks
RECURSIVE LStrip(_)
LStrip(s) ==
    IF Len(s) > 0 /\ CharAt(s, 1) = " " THEN LStrip(SubSeq(s, 2, Len(s))) ELSE s
RECURSIVE RStrip(_)
RStrip(s) ==
    IF Len(s) > 0 /\ CharAt(s, Len(s)) = " " THEN RStrip(SubSeq(s, 1, Len(s) - 1)) ELSE s
Strip(s) == RStrip(LStrip(s))

\* plainto_tsquery('english', :query) for a query of at most one word: the
\* word, or the empty query for a blank string.  Stemming and stop words are
\* left out; texts and queries are lower-case words.
PlainToTsquery(query) == {Strip(query)} \ {""}

\* to_tsvector(text) @@ tsquery: every word of the query occurs in the text;
\* the empty query matches nothing.
TsMatch(text, tsquery) ==
    tsquery # {} /\ tsquery \subseteq {text[i] : i \in 1..Len(text)}

\* ts_rank: grows with the number of occurrences of the query's words
TsRank(text, tsquery) == Cardinality({i \in 1..Len(text) : text[i] \in tsquery})

\* the WHERE clause shared by the page query and the count query
SearchWhere(tables, query, channel, start_age, end_age) ==
    {r \in {tables.messages[i] : i \in 1..Len(tables.messages)} :
        /\ Len(r.text) > 0
        /\ TsMatch(r.text, PlainToTsquery(query))
        /\ (channel # <<>> => r.channel = channel[1])
        /\ (start_age # <<>> => r.age <= start_age[1])
        /\ (end_age # <<>> => r.age >= end_age[1])}

\* the ORDER BY expression; dd.full_date grows as the age shrinks
OrderKey(r, query, sort_by) ==
    CASE sort_by = "views" -> r.view_count
      [] sort_by = "forwards" -> r.forward_count
      [] sort_by = "date" -> 0 - r.age
      [] OTHER -> TsRank(r.text, PlainToTsquery(query))

\* ORDER BY <key> ASC|DESC: the server may return rows with equal keys in any
\* order, and in a different one for each statement.
OrderBy(S, query, sort_by, sort_order) ==
    {f \in Orderings(S) :
        \A i, j \in 1..Cardinality(S) :
            i < j => IF sort_order = "asc"
                     THEN OrderKey(f[i], query, sort_by) <= OrderKey(f[j], query, sort_by)
                     ELSE OrderKey(f[i], query, sort_by) >= OrderKey(f[j], query, sort_by)}

\* LIMIT :limit OFFSET :offset
LimitOffset(rows, lim, offset) ==
    SubSeq(rows, offset + 1, Min(offset + lim, Len(rows)))

\* QueryService.search_messages: (formatted_results, total_count).  `rows` is
\* the order in which the server returns the ordered rows of this statement.
\* Line 279 reads `else:  SortBy.RELEVANCE` (the `#` of the comment is
\* missing); the branch is modelled as the block indented under it.
search_messages(tables, query, channel, start_age, end_age, page, lim, sort_by, sort_order, rows) ==
    LET offset == (page - 1) * lim
        results == LimitOffset(rows, lim, offset)
        total_count == Cardinality(SearchWhere(tables, query, channel, start_age, end_age))
    IN [results |-> [i \in 1..Len(results) |->
                        [message_id |-> results[i].message_id,
                         channel_name |-> results[i].channel,
                         message_text |-> results[i].text,
                         view_count |-> results[i].view_count,
                         forward_count |-> results[i].forward_count]],
        total_count |-> total_count]

SearchRows ==
    {[text |-> <<"paracetamol">>, channel |-> "chemed", view_count |-> 5,
      forward_count |-> 1, age |-> 1],
     [text |-> <<"paracetamol", "paracetamol">>, channel |-> "chemed", view_count |-> 5,
      forward_count |-> 0, age |-> 2],
     [text |-> <<"paracetamol">>, channel |-> "lobelia", view_count |-> 0,
      forward_count |-> 1, age |-> 1],
     [text |-> <<"insulin">>, channel |-> "chemed", view_count |-> 9,
      forward_count |-> 2, age |-> 3],
     [text |-> <<>>, channel |-> "chemed", view_count |-> 1, forward_count |-> 0, age |-> 1]}

\* message_id is the primary key: the rows of a table are numbered
WithIds(rows) ==
    [i \in 1..Len(rows) |->
        [message_id |-> i, text |-> rows[i].text, channel |-> rows[i].channel,
         view_count |-> rows[i].view_count, forward_count |-> rows[i].forward_count,
         age |-> rows[i].age]]

\* the primary key alone, for any row shape
WithMessageIds(rows) == [i \in 1..Len(rows) |-> [message_id |-> i] @@ rows[i]]

SortFields == {"views", "forwards", "date", "relevance"}
SortOrders == {"asc", "desc"}
PageLimits == 1..2
Pages == 1..MaxPage

NoPages == [p \in {} |-> <<>>]

\* QueryService(db).search_messages(...) for one more page of the same search
SearchMessages(query, channel, page, lim, sort_by, sort_order) ==
    LET params == [query |-> query, channel |-> channel, lim |-> lim,
                   sort_by |-> sort_by, sort_order |-> sort_order]
        S == SearchWhere(db, query, channel, <<>>, <<>>)
    IN /\ reply = NoReply \/ (reply.op = "search_messages" /\ reply.params = params)
       /\ reply # NoReply => page \notin DOMAIN reply.pages
       /\ \E rows \in OrderBy(S, query, sort_by, sort_order) :
             LET r == search_messages(db, query, channel, <<>>, <<>>, page, lim, sort_by,
                                      sort_order, rows)
                 before == IF reply = NoReply THEN NoPages ELSE reply.pages
             IN reply' = [op |-> "search_messages", params |-> params,
                          pages |-> [p \in DOMAIN before \cup {page} |->
                                        IF p = page THEN r ELSE before[p]]]
       /\ UNCHANGED <<envVars, limiterVars, facadeVars, keyVars, classifierVars, db,
                      pipelineVars, restVars>>

\* --------------------------------------------------- routers/search.py
NotDelegated == <<>>

\* GET /search/messages: Query(..., min_length=1, max_length=100) is checked
\* by FastAPI (422) before the handler runs; the handler rejects a query whose
\* stripped length is below 2 with 400, which `except HTTPException: raise`
\* passes on; any other exception becomes 500.  dbFails: the session raises.
search_messages_endpoint(tables, query, channel, page, lim, sort_by, sort_order, rows, dbFails) ==
    IF Len(query) < 1 \/ Len(query) > 100
    THEN [status |-> 422, delegated |-> NotDelegated, total |-> 0, results |-> <<>>]
    ELSE IF Len(Strip(query)) < 2
    THEN [status |-> 400, delegated |-> NotDelegated, total |-> 0, results |-> <<>>]
    ELSE IF dbFails
    THEN [status |-> 500, delegated |-> <<query>>, total |-> 0, results |-> <<>>]
    ELSE LET r == search_messages(tables, query, channel, <<>>, <<>>, page, lim, sort_by,
                                  sort_order, rows)
         IN [status |-> 200, delegated |-> <<query>>, total |-> r.total_count,
             results |-> r.results]

ProductSearchLimit == 50
ProductMentions == 10

\* GET /search/products: Query(..., min_length=3) is checked by FastAPI; the
\* handler passes product_name to search_messages as it is.
search_products(tables, product_name, channel, rows, dbFails) ==
    IF Len(product_name) < 3
    THEN [status |-> 422, delegated |-> NotDelegated, total |-> 0, results |-> <<>>]
    ELSE IF dbFails
    THEN [status |-> 500, delegated |-> <<product_name>>, total |-> 0, results |-> <<>>]
    ELSE LET r == search_messages(tables, product_name, channel, <<>>, <<>>, 1,
                                  ProductSearchLimit, "relevance", "desc", rows)
         IN [status |-> 200, delegated |-> <<product_name>>, total |-> r.total_count,
             results |-> Prefix(r.results, ProductMentions)]

Queries == {"", "a", " a ", "in", "   ", "insulin", " paracetamol "}

GetSearchMessages(query, channel, page, lim, sort_by, sort_order, dbFails) ==
    /\ reply = NoReply
    /\ \E rows \in OrderBy(SearchWhere(db, query, channel, <<>>, <<>>), query, sort_by,
                           sort_order) :
          LET r == search_messages_endpoint(db, query, channel, page, lim, sort_by,
                                            sort_order, rows, dbFails)
          IN reply' = [op |-> "GET /search/messages", query |-> query,
                       status |-> r.status, delegated |-> r.delegated,
                       total |-> r.total, results |-> r.results]
    /\ UNCHANGED <<envVars, limiterVars, facadeVars, keyVars, classifierVars, db,
                   pipelineVars, restVars>>

GetSearchProducts(product_name, channel, dbFails) ==
    /\ reply = NoReply
    /\ \E rows \in OrderBy(SearchWhere(db, product_name, channel, <<>>, <<>>),
                           product_name, "relevance", "desc") :
          LET r == search_products(db, product_name, channel, rows, dbFails)
          IN reply' = [op |-> "GET /search/products", query |-> product_name,
                       status |-> r.status, delegated |-> r.delegated,
                       total |-> r.total, results |-> r.results]
    /\ UNCHANGED <<envVars, limiterVars, facadeVars, keyVars, classifierVars, db,
                   pipelineVars, restVars>>

\* ----------------------------------------------- get_visual_content_stats
VisualContentPrefix == "visual_content"
VisualContentTTL == 600

\* DimChannel LEFT JOIN FactMessage LEFT JOIN FactImageDetection: one row per
\* (message, detection), one row with NULL detection for a message without
\* detections, and one row with NULL message for a channel without messages.
\* A row is <<channel_name, message or <<>>, detection index or 0>>.
OuterJoined(tables) ==
    UNION {
        LET ids == {i \in 1..Len(tables.messages) : tables.messages[i].channel = c} IN
        IF ids = {} THEN {<<c, <<>>, 0>>}
        ELSE UNION {
                 IF tables.messages[i].detections = 0
                 THEN {<<c, <<tables.messages[i]>>, 0>>}
                 ELSE {<<c, <<tables.messages[i]>>, d>> : d \in 1..tables.messages[i].detections}
                 : i \in ids}
        : c \in tables.channels}

\* ... JOIN DimDate ON FactMessage.date_key = DimDate.date_key WHERE full_date
\* BETWEEN start AND end [AND channel_name = :channel]: an inner join, so a row
\* with a NULL message has no partner.
StatsRows(tables, start, end, channel) ==
    {j \in OuterJoined(tables) :
        /\ j[2] # <<>>
        /\ j[2][1].age <= start
        /\ j[2][1].age >= end
        /\ (channel # <<>> => j[1] = channel[1])}

\* a percentage p / t * 100 as the fraction <<100 * p, t>>
Percentage(p, t) == <<100 * p, t>>
ZeroPercent == <<0, 1>>

\* QueryService.get_visual_content_stats (the decorated function): the
\* per-channel statistics, one per group of the GROUP BY.  Dates are ages.
get_visual_content_stats(tables, start_age, end_age, channel) ==
    LET start == IF start_age = <<>> THEN DefaultActivityDays ELSE start_age[1]
        end == IF end_age = <<>> THEN 0 ELSE end_age[1]
        rows == StatsRows(tables, start, end, channel)
        groups == {j[1] : j \in rows}
    IN [channel_stats |->
           {LET g == {j \in rows : j[1] = c}
                total_posts == Cardinality(g)
                posts_with_images == Cardinality({j \in g : j[2][1].has_image})
            IN [channel_name |-> c, total_posts |-> total_posts,
                posts_with_images |-> posts_with_images,
                image_percentage |-> IF total_posts # 0
                                     THEN Percentage(posts_with_images, total_posts)
                                     ELSE ZeroPercent]
            : c \in groups}]

VisualRows ==
    {[channel |-> "chemed", age |-> 1, has_image |-> TRUE, detections |-> 2],
     [channel |-> "chemed", age |-> 2, has_image |-> FALSE, detections |-> 0],
     [channel |-> "chemed", age |-> 40, has_image |-> TRUE, detections |-> 1],
     [channel |-> "lobelia", age |-> 1, has_image |-> TRUE, detections |-> 0]}
VisualChannelFilters == {<<>>, <<"chemed">>, <<"lobelia">>}

GetVisualContentStats(self, start_age, end_age, channel) ==
    LET result == <<"dict", get_visual_content_stats(db, start_age, end_age, channel)>>
        r == wrapper(VisualContentPrefix, VisualContentTTL, store, now, <<self>>, <<>>,
                     result, FALSE)
    IN /\ reply = NoReply
       /\ reply' = [op |-> "get_visual_content_stats", start_age |-> start_age,
                    end_age |-> end_age, channel |-> channel, raised |-> r.raised,
                    val |-> r.val[2]]
       /\ store' = r.store
       /\ UNCHANGED <<now, redis_client, limiterVars, facadeVars, keyVars, classifierVars,
                      db, pipelineVars, restVars>>

\* ------------------------------------------------ get_analytics_dashboard
DashboardPrefix == "analytics_dashboard"
DashboardTTL == 300
ChannelPerformanceLimit == 10
TrendingLimit == 5
TrendingMinMentions == 3

\* DimChannel JOIN FactMessage GROUP BY channel_name: one row per channel with
\* at least one message.  engagement_rate is sum(view_count) /
\* count(message_id), a fraction <<numerator, denominator>>: SQLAlchemy 1.x
\* renders a plain `/`, which PostgreSQL truncates for two integers, and
\* SQLAlchemy 2 renders a true division.
ChannelPerf(tables, truncates) ==
    {LET g == Filter(tables.messages,
                     {r \in {tables.messages[i] : i \in 1..Len(tables.messages)} :
                         r.channel = c})
     IN [channel_name |-> c, message_count |-> Len(g), total_views |-> SumViews(g),
         engagement_rate |-> IF truncates THEN <<SumViews(g) \div Len(g), 1>>
                             ELSE <<SumViews(g), Len(g)>>]
     : c \in {tables.messages[i].channel : i \in 1..Len(tables.messages)}}

\* ORDER BY engagement_rate DESC: rows with equal rates in any order
ByEngagementDesc(S) ==
    {f \in Orderings(S) :
        \A i, j \in 1..Cardinality(S) :
            i < j => f[i].engagement_rate[1] * f[j].engagement_rate[2]
                        >= f[j].engagement_rate[1] * f[i].engagement_rate[2]}

\* query.limit(n).all() without ORDER BY: any n of the rows, in any order
LimitAll(S, n) ==
    UNION {Orderings(T) : T \in {U \in SUBSET S : Cardinality(U) = Min(n, Cardinality(S))}}

\* DimChannel.channel_name WHERE avg_views < 100: a NULL avg_views (<<>>) does
\* not satisfy the comparison
LowEngagement(tables) ==
    {c \in tables.channels :
        tables.avg_views[c] # <<>> /\ tables.avg_views[c][1] < 100}

LowEngagementLimit == 3
RecommendationsLimit == 5

\* avg(CASE WHEN has_image THEN 1 ELSE 0 END) over fct_messages: NULL (<<>>)
\* without rows, else the fraction <<with image, all>>
ImageRatio(tables) ==
    LET n == Len(tables.messages) IN
    IF n = 0 THEN <<>>
    ELSE <<Cardinality({i \in 1..n : tables.messages[i].has_image}), n>>

\* `image_stats and image_stats < 0.3`: None and Decimal(0) are falsy
RatioIsLow(ratio) ==
    /\ ratio # <<>>
    /\ ratio[1] # 0
    /\ 10 * ratio[1] < 3 * ratio[2]

\* The two recommendation texts: the content-strategy one carries the joined
\* channel names, the visual-content one the ratio formatted as {:.1%}, kept
\* in tenths of a percent.
Recommendations(tables, low_engagement) ==
    LET ratio == ImageRatio(tables)
        strategy == IF Len(low_engagement) > 0
                    THEN <<[message |-> "Consider improving content strategy for channels: ",
                            channels |-> low_engagement]>>
                    ELSE <<>>
        visual == IF RatioIsLow(ratio)
                  THEN <<[message |-> "Increase visual content: Only {:.1%} of posts contain images.",
                          tenths |-> (2000 * ratio[1] + ratio[2]) \div (2 * ratio[2])]>>
                  ELSE <<>>
    IN Prefix(strategy \o visual, RecommendationsLimit)

\* QueryService.get_analytics_dashboard (the decorated function); `ranked` is
\* the order in which the server returns the ranking query's rows and
\* `low_engagement` the rows of the low-engagement query.
get_analytics_dashboard(tables, ranked, low_engagement) ==
    [overall_stats |-> [total_messages |-> Len(tables.messages),
                        total_views |-> SumViews(tables.messages)],
     channel_performance |-> Prefix(ranked, ChannelPerformanceLimit),
     trending_products |-> get_top_products(tables.messages, TrendingLimit, <<"week">>, <<>>,
                                            TrendingMinMentions),
     recommendations |-> Recommendations(tables, low_engagement)]

DashboardRows ==
    {[channel |-> c, view_count |-> v, text |-> <<"Amoxicillin", "250mg">>, age |-> 1,
      has_image |-> b] :
        c \in {"chemed", "lobelia"}, v \in {2, 3}, b \in BOOLEAN}

DashboardChannels == {"chemed", "lobelia", "tikvah", "yetena"}

\* dim_channels.avg_views: no channel below 100; one below, one at 100 and one
\* NULL; all four below
AvgViewsCases ==
    {[c \in DashboardChannels |-> <<250>>],
     [c \in DashboardChannels |->
        IF c = "chemed" THEN <<40>> ELSE IF c = "lobelia" THEN <<100>>
        ELSE IF c = "tikvah" THEN <<>> ELSE <<250>>],
     [c \in DashboardChannels |-> <<40>>]}

GetAnalyticsDashboard(self, truncates) ==
    /\ reply = NoReply
    /\ \E ranked \in ByEngagementDesc(ChannelPerf(db, truncates)),
          low_engagement \in LimitAll(LowEngagement(db), LowEngagementLimit) :
          LET result == <<"dict", get_analytics_dashboard(db, ranked, low_engagement)>>
              r == wrapper(DashboardPrefix, DashboardTTL, store, now, <<self>>, <<>>,
                           result, FALSE)
          IN /\ reply' = [op |-> "get_analytics_dashboard", raised |-> r.raised,
                          truncates |-> truncates, val |-> r.val[2]]
             /\ store' = r.store
    /\ UNCHANGED <<now, redis_client, limiterVars, facadeVars, keyVars, classifierVars,
                   db, pipelineVars, restVars>>

\* ------------------------------------------- dagster_project/pipeline.py
PyDict(d) == <<"dict", d>>

\* dict.get(k, default)
DictGet(d, k, default) == IF k \in DOMAIN d THEN d[k] ELSE default

\* sub in s, for two strings
StrContains(sub, s) ==
    \E i \in 1..(Len(s) - Len(sub) + 1) : SubSeq(s, i, i + Len(sub) - 1) = sub

OpNames == {"scrape_telegram_data", "load_raw_to_postgres", "run_dbt_transformations",
            "run_yolo_enrichment", "validate_pipeline_results"}

\* A stage's script or project is missing (os.path.exists is False), or its
\* subprocess exits with 0, exits with another code, or subprocess.run raises
\* (TimeoutExpired after the timeout, OSError when the program cannot start).
StageOutcomes == {"missing", "exit0", "nonzero", "raises"}

\* What the scraper wrote to stdout: nothing, text that is not JSON, a JSON
\* value that is not a list, or a JSON list of n elements.
ScraperStdout ==
    {<<"empty", 0>>, <<"invalid", 0>>, <<"scalar", 0>>}
        \cup {<<"list", n>> : n \in 0..MaxMessages}

TimeoutExpired == PyRaise("TimeoutExpired", "Command timed out")

\* the try block of scrape_telegram_data
scrape_telegram_data_try(outcome, stdout, t) ==
    IF outcome = "missing"
    THEN PyDict([status |-> "mock_success", message_count |-> 50, timestamp |-> t])
    ELSE IF outcome = "raises" THEN TimeoutExpired
    ELSE IF outcome = "nonzero"
    THEN PyDict([status |-> "partial_success", message_count |-> 25, timestamp |-> t,
                 warning |-> "Scraper had some issues"])
    ELSE LET count == IF stdout[1] = "list" THEN stdout[2]
                      ELSE IF stdout[1] = "scalar" THEN 1
                      ELSE 30
         IN PyDict([status |-> "success", message_count |-> count, timestamp |-> t])

scrape_telegram_data(outcome, stdout, t) ==
    LET r == scrape_telegram_data_try(outcome, stdout, t)
    IN IF r[1] = "raise"
       THEN PyDict([status |-> "error", message_count |-> 0, timestamp |-> t,
                    error |-> r[2][2]])
       ELSE r

\* the try block of load_raw_to_postgres: the loader's exit code is only logged
load_raw_to_postgres_try(scrape_result, outcome, t) ==
    IF outcome = "raises" THEN TimeoutExpired
    ELSE PyDict([status |-> "loaded",
                 processed_messages |-> DictGet(scrape_result, "message_count", 0),
                 timestamp |-> t])

load_raw_to_postgres(scrape_result, outcome, t) ==
    LET r == load_raw_to_postgres_try(scrape_result, outcome, t)
    IN IF r[1] = "raise"
       THEN PyDict([status |-> "error", processed_messages |-> 0, timestamp |-> t,
                    error |-> r[2][2]])
       ELSE r

StageOutput(outcome) ==
    IF outcome = "missing" THEN "Skipped"
    ELSE IF outcome = "exit0" THEN "Success"
    ELSE "Partial success"

\* the try block of run_dbt_transformations
run_dbt_transformations_try(load_result, outcome, t) ==
    IF outcome = "raises" THEN TimeoutExpired
    ELSE PyDict([status |-> StageOutput(outcome), timestamp |-> t,
                 processed_rows |-> DictGet(load_result, "processed_messages", 0)])

\* run_dbt_transformations without its except clause
run_dbt_transformations_noExcept(load_result, outcome, t) ==
    run_dbt_transformations_try(load_result, outcome, t)

run_dbt_transformations(load_result, outcome, t) ==
    LET r == run_dbt_transformations_try(load_result, outcome, t)
    IN IF r[1] = "raise"
       THEN PyDict([status |-> "error", timestamp |-> t, error |-> r[2][2]])
       ELSE r

\* the try block of run_yolo_enrichment
run_yolo_enrichment_try(scrape_result, outcome, t) ==
    IF outcome = "raises" THEN TimeoutExpired
    ELSE PyDict([status |-> StageOutput(outcome), timestamp |-> t,
                 message_count |-> DictGet(scrape_result, "message_count", 0)])

run_yolo_enrichment(scrape_result, outcome, t) ==
    LET r == run_yolo_enrichment_try(scrape_result, outcome, t)
    IN IF r[1] = "raise"
       THEN PyDict([status |-> "error", timestamp |-> t, error |-> r[2][2]])
       ELSE r

\* validate_pipeline_results has no try block
validate_pipeline_results(dbt_result, yolo_result, t) ==
    LET dbt_status == StrLower(DictGet(dbt_result, "status", ""))
        yolo_status == StrLower(DictGet(yolo_result, "status", ""))
        overall_status ==
            IF StrContains("error", dbt_status) /\ StrContains("error", yolo_status)
            THEN "FAILED"
            ELSE IF StrContains("error", dbt_status) \/ StrContains("error", yolo_status)
            THEN "PARTIAL_SUCCESS"
            ELSE "SUCCESS"
    IN PyDict([pipeline_status |-> overall_status,
               completion_time |-> t,
               dbt_status |-> DictGet(dbt_result, "status", "Unknown"),
               yolo_status |-> DictGet(yolo_result, "status", "Unknown"),
               summary |-> "Medical Telegram Pipeline completed with status: "
                              \o overall_status])

\* medical_telegram_daily_pipeline with validation wired to dbt_data only
Upstream_validateAfterDbt ==
    [o \in OpNames |->
        CASE o = "scrape_telegram_data" -> {}
          [] o = "load_raw_to_postgres" -> {"scrape_telegram_data"}
          [] o = "run_dbt_transformations" -> {"load_raw_to_postgres"}
          [] o = "run_yolo_enrichment" -> {"scrape_telegram_data"}
          [] o = "validate_pipeline_results" -> {"run_dbt_transformations"}]

\* medical_telegram_daily_pipeline: the ops whose outputs each op takes
Upstream ==
    [o \in OpNames |->
        CASE o = "scrape_telegram_data" -> {}
          [] o = "load_raw_to_postgres" -> {"scrape_telegram_data"}
          [] o = "run_dbt_transformations" -> {"load_raw_to_postgres"}
          [] o = "run_yolo_enrichment" -> {"scrape_telegram_data"}
          [] o = "validate_pipeline_results" ->
                {"run_dbt_transformations", "run_yolo_enrichment"}]

NoOutput == <<>>

PipelineIdle ==
    /\ ops = <<>>
    /\ outputs = <<>>

\* ------------------------------------------- concurrent requests (dispatch)
\* Requests of one client to one endpoint.  dispatch is a coroutine on one
\* event loop: from its start to `await call_next(request)` nothing else
\* runs (CacheService.get and set are blocking calls), and other requests run
\* while the awaited handler does.
MaxRequests == 3
Requests == 1..MaxRequests
RaceClient == "10.0.0.1"
RacePath == "/api/search/messages"

RaceIdle == inflight = <<>>

\* dispatch up to `await call_next(request)`, or up to the HTTPException
Enter(r, failGet, failSet) ==
    LET d == dispatch(limit, window, mw_redis, store, now, RaceClient, RacePath,
                      failGet, failSet) IN
    /\ inflight # <<>>
    /\ inflight[r].pc = "new"
    /\ store' = d.store
    /\ inflight' = [inflight EXCEPT ![r] =
                       [pc |-> IF d.status = 200 THEN "call_next" ELSE "done",
                        status |-> d.status, win |-> now \div window]]
    /\ UNCHANGED <<now, redis_client, limiterVars, facadeVars, keyVars, classifierVars,
                   queryVars, pipelineVars, loaderVars, yoloVars, resultsVars>>

\* call_next returns and dispatch returns the response
Respond(r) ==
    /\ inflight # <<>>
    /\ inflight[r].pc = "call_next"
    /\ inflight' = [inflight EXCEPT ![r].pc = "done"]
    /\ UNCHANGED <<envVars, limiterVars, facadeVars, keyVars, classifierVars,
                   queryVars, pipelineVars, loaderVars, yoloVars, resultsVars>>

\* --------------------------------------------- scripts/run_yolo_pipeline.py
\* the steps of FinalYOLOPipeline.run in the order it calls them
StepOrder ==
    <<"setup_directories", "check_database", "run_yolo_detection", "load_to_database",
      "create_simple_dbt_model", "run_dbt_simple", "generate_final_report",
      "show_visualization_examples">>

\* The ways through each step function and what it returns or raises.
StepPaths ==
    [n \in {StepOrder[i] : i \in 1..Len(StepOrder)} |->
        CASE n = "setup_directories" ->
                {<<"created", PyBool(TRUE)>>,
                 <<"mkdir fails", PyRaise("PermissionError", "")>>}
          [] n = "check_database" ->
                {<<"connected, schema exists", PyBool(TRUE)>>,
                 <<"connected, no schema", PyBool(TRUE)>>,
                 <<"connection failed", PyBool(FALSE)>>}
          [] n = "run_yolo_detection" ->
                {<<"model not loaded", PyBool(FALSE)>>,
                 <<"pip install fails", PyRaise("CalledProcessError", "")>>,
                 <<"processed", PyBool(TRUE)>>,
                 <<"processing failed", PyBool(FALSE)>>}
          [] n = "load_to_database" ->
                {<<"no csv", PyBool(FALSE)>>,
                 <<"loaded", PyBool(TRUE)>>,
                 <<"load failed", PyBool(FALSE)>>}
          [] n = "create_simple_dbt_model" ->
                {<<"written", PyBool(TRUE)>>,
                 <<"write fails", PyRaise("OSError", "")>>}
          [] n = "run_dbt_simple" ->
                {<<"chdir fails", PyRaise("FileNotFoundError", "")>>,
                 <<"dbt run succeeded", PyBool(TRUE)>>,
                 <<"dbt debug failed, table created manually", PyBool(TRUE)>>,
                 <<"dbt debug failed, manual creation failed", PyBool(FALSE)>>,
                 <<"dbt run failed, table created manually", PyBool(TRUE)>>,
                 <<"dbt run failed, manual creation failed", PyBool(FALSE)>>,
                 <<"dbt raised, table created manually", PyBool(TRUE)>>,
                 <<"dbt raised, manual creation failed", PyBool(FALSE)>>}
          [] n = "generate_final_report" ->
                {<<"report written", PyBool(TRUE)>>,
                 <<"report failed", PyBool(TRUE)>>}
          [] n = "show_visualization_examples" ->
                {<<"no folder", PyBool(TRUE)>>,
                 <<"no files", PyBool(TRUE)>>,
                 <<"file name without underscore", PyRaise("IndexError", "")>>,
                 <<"shown", PyBool(TRUE)>>,
                 <<"shown, database query failed", PyBool(TRUE)>>}]

\* `if step():`
Truthy(v) == v = PyBool(TRUE)

\* run calling every step whatever the earlier ones returned
NextStep_keepsGoing(done) ==
    IF Len(done) < Len(StepOrder) THEN Len(done) + 1 ELSE 0

\* The step run calls next, 0 when it calls no more: the two early returns
\* and the `if success` of the loop.
NextStep(done) ==
    IF Len(done) < Len(StepOrder) /\ \A i \in 1..Len(done) : Truthy(done[i].returned)
    THEN Len(done) + 1
    ELSE 0

YoloIdle == steps = <<>> /\ run_ret = <<>>

\* run calls its next step; an exception of the step leaves run
RunStep(path) ==
    LET k == NextStep(steps) IN
    /\ run_ret = <<>>
    /\ k # 0
    /\ path \in StepPaths[StepOrder[k]]
    /\ steps' = Append(steps, [name |-> StepOrder[k], path |-> path[1], returned |-> path[2]])
    /\ run_ret' = IF path[2][1] = "raise" THEN path[2] ELSE run_ret
    /\ UNCHANGED <<envVars, limiterVars, facadeVars, keyVars, classifierVars, queryVars,
                   pipelineVars, raceVars, loaderVars, resultsVars>>

\* run returns: False at an early return, else `success`
RunReturns ==
    /\ run_ret = <<>>
    /\ NextStep(steps) = 0
    /\ run_ret' = PyBool(\A i \in 1..Len(steps) : Truthy(steps[i].returned))
    /\ UNCHANGED <<envVars, limiterVars, facadeVars, keyVars, classifierVars, queryVars,
                   pipelineVars, raceVars, loaderVars, resultsVars, steps>>

\* ----------------------------------------- scripts/load_raw_to_postgres.py
\* raw.telegram_messages as the rows committed so far, in insertion order,
\* and the connection's open transaction: the rows it inserted and whether a
\* failed statement has aborted it.  A row is its message_id, channel_name
\* and views; a message of a file is its message_id (<<>> when absent), its
\* views and what goes wrong with it:
\*   "value"    a field Python cannot convert (int(views) raises) - the
\*              message is skipped before any statement is sent;
\*   "db"       a value the server refuses - cursor.execute raises and the
\*              transaction is aborted;
\*   "not_dict" an element that is not an object - msg.get raises, and again
\*              inside the except clause, which ends the call.
MaxFileMessages == 2

EmptyTable == [rows |-> <<>>, pending |-> <<>>, aborted |-> FALSE]

FileMessages ==
    {[message_id |-> <<1>>, views |-> 1, fault |-> "none"],
     [message_id |-> <<1>>, views |-> 2, fault |-> "none"],
     [message_id |-> <<2>>, views |-> -1, fault |-> "none"],
     [message_id |-> <<>>, views |-> 1, fault |-> "none"],
     [message_id |-> <<1>>, views |-> 1, fault |-> "value"],
     [message_id |-> <<2>>, views |-> 1, fault |-> "db"],
     [message_id |-> <<2>>, views |-> 1, fault |-> "not_dict"]}

\* a JSON file of the data lake, or one that cannot be read or parsed
JsonFiles ==
    {[readable |-> FALSE, channel |-> "chemed", messages |-> <<>>]}
        \cup {[readable |-> TRUE, channel |-> c, messages |-> ms] :
                c \in {"chemed", "lobelia"},
                ms \in UNION {[1..n -> FileMessages] : n \in 0..MaxFileMessages}}

\* UNIQUE(message_id, channel_name) as ON CONFLICT sees it: a row of the table
\* or of the open transaction with the same pair
Conflicts(table, message_id, channel_name) ==
    \E r \in {table.rows[i] : i \in 1..Len(table.rows)}
               \cup {table.pending[i] : i \in 1..Len(table.pending)} :
        r.message_id = message_id /\ r.channel_name = channel_name

\* `message_id is None`
HasNoId(msg) == msg.message_id = <<>>

\* The loop of load_json_file from message i on: the transaction and
\* inserted_count after it, and whether an exception left the loop.
RECURSIVE InsertFrom(_, _, _, _, _)
InsertFrom(messages, i, channel_name, table, inserted_count) ==
    IF i > Len(messages)
    THEN [table |-> table, inserted_count |-> inserted_count, raised |-> FALSE]
    ELSE LET msg == messages[i] IN
         IF msg.fault = "not_dict"
         THEN [table |-> table, inserted_count |-> inserted_count, raised |-> TRUE]
         ELSE IF HasNoId(msg) \/ msg.fault = "value"
         THEN InsertFrom(messages, i + 1, channel_name, table, inserted_count)
         ELSE IF table.aborted
         THEN InsertFrom(messages, i + 1, channel_name, table, inserted_count)
         ELSE IF msg.fault = "db"
         THEN InsertFrom(messages, i + 1, channel_name, [table EXCEPT !.aborted = TRUE],
                         inserted_count)
         ELSE IF msg.message_id # <<>> /\ Conflicts(table, msg.message_id[1], channel_name)
         THEN InsertFrom(messages, i + 1, channel_name, table, inserted_count + 1)
         ELSE InsertFrom(messages, i + 1, channel_name,
                         [table EXCEPT !.pending =
                             Append(@, [message_id |-> IF msg.message_id = <<>> THEN 0
                                                       ELSE msg.message_id[1],
                                        has_id |-> msg.message_id # <<>>,
                                        channel_name |-> channel_name,
                                        views |-> Max(msg.views, 0)])],
                         inserted_count + 1)

\* connection.commit(): the rows of the transaction become rows of the table,
\* unless the transaction was aborted, which the server ends with a rollback
Commit(table) ==
    [rows |-> IF table.aborted THEN table.rows ELSE table.rows \o table.pending,
     pending |-> <<>>, aborted |-> FALSE]

\* DataLoader.load_json_file: the table after the call and what it returns
load_json_file(table, json_file) ==
    IF ~json_file.readable THEN [table |-> table, returned |-> 0]
    ELSE LET l == InsertFrom(json_file.messages, 1, json_file.channel, table, 0) IN
         IF l.raised THEN [table |-> l.table, returned |-> 0]
         ELSE [table |-> Commit(l.table), returned |-> l.inserted_count]

LoaderIdle == raw_table = <<>> /\ load_ret = <<>>

\* the pairs (message_id, channel_name) a file can insert
KeysOf(json_file) ==
    {<<json_file.messages[i].message_id, json_file.channel>> :
        i \in {k \in 1..Len(json_file.messages) :
                  json_file.messages[k].message_id # <<>>}}

KeysIn(rows) ==
    {<<<<rows[i].message_id>>, rows[i].channel_name>> :
        i \in {k \in 1..Len(rows) : rows[k].has_id}}

\* One call loader.load_json_file(json_file); load_ret keeps what the call
\* was given and returned and the table it found.
LoadJsonFile(json_file) ==
    LET l == load_json_file(raw_table, json_file) IN
    /\ raw_table # <<>>
    /\ raw_table' = l.table
    /\ load_ret' = [returned |-> l.returned,
                    added |-> Len(l.table.rows) - Len(raw_table.rows),
                    before |-> raw_table.rows,
                    clean |-> raw_table.pending = <<>> /\ ~raw_table.aborted,
                    present |-> /\ json_file.readable
                                /\ KeysOf(json_file) # {}
                                /\ KeysOf(json_file) \subseteq KeysIn(raw_table.rows)]
    /\ UNCHANGED <<envVars, limiterVars, facadeVars, keyVars, classifierVars, queryVars,
                   pipelineVars, raceVars, yoloVars, resultsVars>>

\* ------------------------------------------- load_and_classify_results
\* A detection of the CSV cell is a JSON object with the keys class and
\* confidence; detections_data holds them as <<class, confidence>>.
ToDicts(data) == [i \in 1..Len(data) |-> [class |-> data[i][1], confidence |-> data[i][2]]]

\* DetectionResult.from_dict
from_dict(d) ==
    [class_name |-> DictGet(d, "class", ""), confidence |-> DictGet(d, "confidence", 0)]

\* dataclasses.asdict of a DetectionResult: its fields under their own names
asdict(det) == [class_name |-> det.class_name, confidence |-> det.confidence]

\* what analyze_detections reads of each dictionary it is handed:
\* d.get('class', '') and d.get('confidence', 0)
AsRead(dicts) ==
    [i \in 1..Len(dicts) |->
        <<DictGet(dicts[i], "class", ""), DictGet(dicts[i], "confidence", 0)>>]

\* The cell of the detections column: absent or NaN, text that is not JSON,
\* or the JSON list.
DetectionCells == {"nan", "invalid", "json"}

\* the body of the loop of load_and_classify_results for one row
classify_row(cell, data, tieUp) ==
    LET detections == IF cell = "json"
                      THEN [i \in 1..Len(data) |-> from_dict(ToDicts(data)[i])]
                      ELSE <<>>
        a == analyze_detections(AsRead([i \in 1..Len(detections) |-> asdict(detections[i])]),
                                tieUp)
    IN [category |-> a.category, confidence_score |-> a.confidence_score,
        detection_count |-> Len(a.detections), business_tags |-> a.business_tags]

ResultsIdle == enhanced = <<>>

LoadAndClassifyRow(cell, tieUp) ==
    /\ enhanced = <<>>
    /\ enhanced' = [cell |-> cell] @@ classify_row(cell, detections_data, tieUp)
    /\ UNCHANGED <<envVars, limiterVars, facadeVars, keyVars, classifierVars, queryVars,
                   pipelineVars, raceVars, loaderVars, yoloVars>>

\* The job's executor starts a step once every op it takes an output from has
\* succeeded; steps whose inputs are ready may run at the same time.
StartOp(o) ==
    /\ ops # <<>>
    /\ ops[o].state = "pending"
    /\ \A u \in Upstream[o] : ops[u].state = "finished"
    /\ ops' = [ops EXCEPT ![o] = [state |-> "running", runs |-> @.runs + 1]]
    /\ UNCHANGED <<envVars, limiterVars, facadeVars, keyVars, classifierVars, queryVars,
                   outputs, restVars>>

\* The op function returns or raises: a step that raises fails and yields no
\* output.
FinishOp(o, result) ==
    /\ ops # <<>>
    /\ ops[o].state = "running"
    /\ IF result[1] = "raise"
       THEN /\ ops' = [ops EXCEPT ![o].state = "failed"]
            /\ UNCHANGED outputs
       ELSE /\ ops' = [ops EXCEPT ![o].state = "finished"]
            /\ outputs' = [outputs EXCEPT ![o] = result[2]]
    /\ UNCHANGED <<envVars, limiterVars, facadeVars, keyVars, classifierVars, queryVars,
                   restVars>>

ScrapeTelegramData(outcome, stdout) ==
    FinishOp("scrape_telegram_data", scrape_telegram_data(outcome, stdout, now))

LoadRawToPostgres(outcome) ==
    FinishOp("load_raw_to_postgres",
             load_raw_to_postgres(outputs["scrape_telegram_data"], outcome, now))

RunDbtTransformations(outcome) ==
    FinishOp("run_dbt_transformations",
             run_dbt_transformations(outputs["load_raw_to_postgres"], outcome, now))

RunYoloEnrichment(outcome) ==
    FinishOp("run_yolo_enrichment",
             run_yolo_enrichment(outputs["scrape_telegram_data"], outcome, now))

ValidatePipelineResults ==
    FinishOp("validate_pipeline_results",
             validate_pipeline_results(outputs["run_dbt_transformations"],
                                       outputs["run_yolo_enrichment"], now))

\* ------------------------------------------------------------------- clock
Tick ==
    /\ now < MaxTime
    /\ now' = now + 1
    /\ UNCHANGED <<store, redis_client, limiterVars, facadeVars, keyVars, classifierVars,
                 queryVars, pipelineVars, restVars>>

\* ---------------------------------------------------------- specifications
Init ==
    /\ EnvInit
    /\ LimiterInit
    /\ FacadeIdle
    /\ KeysIdle
    /\ ClassifierIdle
    /\ QueryIdle
    /\ PipelineIdle
    /\ RaceIdle /\ LoaderIdle /\ YoloIdle /\ ResultsIdle

Next ==
    \/ \E ip \in ClientHosts, path \in RequestPaths, failGet, failSet \in BOOLEAN :
          Dispatch(ip, path, failGet, failSet)
    \/ Tick

Spec == Init /\ [][Next]_vars

InitFacade ==
    /\ now = 0
    /\ store = EmptyStore
    /\ redis_client = get_redis_client(TRUE)
    /\ LimiterIdle
    /\ FacadeInit
    /\ KeysIdle
    /\ ClassifierIdle
    /\ QueryIdle
    /\ PipelineIdle
    /\ RaceIdle /\ LoaderIdle /\ YoloIdle /\ ResultsIdle

NextFacade ==
    \/ \E key \in FacadeKeys, fail \in BOOLEAN : Get(key, fail)
    \/ \E key \in FacadeKeys, value \in FacadeValues, ttl \in FacadeTTLs, fail \in BOOLEAN :
          Set(key, value, ttl, fail)
    \/ \E key \in FacadeKeys, fail \in BOOLEAN : Delete(key, fail)
    \/ \E prefix \in FacadePrefixes, failKeys, failDelete \in BOOLEAN :
          ClearPattern(prefix, failKeys, failDelete)
    \/ \E self \in Instances, result \in FunctionResults, fail \in BOOLEAN :
          CachedCall(self, <<PyInt(5)>>, <<>>, result, fail)
    \/ Tick

SpecFacade == InitFacade /\ [][NextFacade]_vars

InitKeys ==
    /\ EnvInit
    /\ LimiterIdle
    /\ FacadeIdle
    /\ KeysInit
    /\ ClassifierIdle
    /\ QueryIdle
    /\ PipelineIdle
    /\ RaceIdle /\ LoaderIdle /\ YoloIdle /\ ResultsIdle

NextKeys == GenerateKeys

SpecKeys == InitKeys /\ [][NextKeys]_vars

InitClassifier ==
    /\ now = 0
    /\ store = EmptyStore
    /\ redis_client = get_redis_client(TRUE)
    /\ LimiterIdle
    /\ FacadeIdle
    /\ KeysIdle
    /\ detections_data \in ListsOver(DetectionClasses \X DetectionConfidences)
    /\ analysis = NoAnalysis
    /\ overall = NotScored
    /\ QueryIdle
    /\ PipelineIdle
    /\ RaceIdle /\ LoaderIdle /\ YoloIdle /\ ResultsIdle

NextClassifier == \E tieUp \in BOOLEAN : Analyze(tieUp)

SpecClassifier == InitClassifier /\ [][NextClassifier]_vars

InitConfidence ==
    /\ now = 0
    /\ store = EmptyStore
    /\ redis_client = get_redis_client(TRUE)
    /\ LimiterIdle
    /\ FacadeIdle
    /\ KeysIdle
    /\ detections_data \in ListsOver({"person"} \X ConfidenceGrid)
    /\ analysis = NoAnalysis
    /\ overall = NotScored
    /\ QueryIdle
    /\ PipelineIdle
    /\ RaceIdle /\ LoaderIdle /\ YoloIdle /\ ResultsIdle

NextConfidence == \E tieUp \in BOOLEAN : Score(tieUp)

SpecConfidence == InitConfidence /\ [][NextConfidence]_vars

InitProducts ==
    /\ now = 0
    /\ store = EmptyStore
    /\ redis_client = get_redis_client(TRUE)
    /\ LimiterIdle
    /\ FacadeIdle
    /\ KeysIdle
    /\ ClassifierIdle
    /\ db \in [channels : {{"chemed", "lobelia"}}, messages : TablesOver(ProductRows)]
    /\ reply = NoReply
    /\ PipelineIdle
    /\ RaceIdle /\ LoaderIdle /\ YoloIdle /\ ResultsIdle

NextProducts ==
    \E self \in Instances, lim \in ProductLimits, timeframe \in Timeframes,
       channel \in ChannelFilters, min_mentions \in MinMentions :
          GetTopProducts(self, lim, timeframe, channel, min_mentions)

SpecProducts == InitProducts /\ [][NextProducts]_vars

InitActivity ==
    /\ now = 0
    /\ store = EmptyStore
    /\ redis_client = get_redis_client(TRUE)
    /\ LimiterIdle
    /\ FacadeIdle
    /\ KeysIdle
    /\ ClassifierIdle
    /\ db \in [channels : SUBSET {"chemed", "lobelia"}, messages : TablesOver(ActivityRows)]
    /\ \A i \in 1..Len(db.messages) : db.messages[i].channel \in db.channels
    /\ reply = NoReply
    /\ PipelineIdle
    /\ RaceIdle /\ LoaderIdle /\ YoloIdle /\ ResultsIdle

NextActivity ==
    \E self \in Instances, channel_name \in ChannelNames, start_age, end_age \in AgeBounds :
        GetChannelActivity(self, channel_name, start_age, end_age)

SpecActivity == InitActivity /\ [][NextActivity]_vars

InitSearch ==
    /\ now = 0
    /\ store = EmptyStore
    /\ redis_client = get_redis_client(TRUE)
    /\ LimiterIdle
    /\ FacadeIdle
    /\ KeysIdle
    /\ ClassifierIdle
    /\ \E rows \in TablesOver(SearchRows) :
          db = [channels |-> {"chemed", "lobelia"}, messages |-> WithIds(rows)]
    /\ reply = NoReply
    /\ PipelineIdle
    /\ RaceIdle /\ LoaderIdle /\ YoloIdle /\ ResultsIdle

NextSearch ==
    \E channel \in ChannelFilters, page \in Pages, lim \in PageLimits,
       sort_by \in SortFields, sort_order \in SortOrders :
          SearchMessages("paracetamol", channel, page, lim, sort_by, sort_order)

SpecSearch == InitSearch /\ [][NextSearch]_vars

NextSearchApi ==
    \/ \E query \in Queries, channel \in ChannelFilters, page \in Pages, lim \in PageLimits,
          sort_by \in {"views", "relevance"}, dbFails \in BOOLEAN :
            GetSearchMessages(query, channel, page, lim, sort_by, "desc", dbFails)
    \/ \E product_name \in Queries, channel \in ChannelFilters, dbFails \in BOOLEAN :
            GetSearchProducts(product_name, channel, dbFails)

SpecSearchApi == InitSearch /\ [][NextSearchApi]_vars

InitVisual ==
    /\ now = 0
    /\ store = EmptyStore
    /\ redis_client = get_redis_client(TRUE)
    /\ LimiterIdle
    /\ FacadeIdle
    /\ KeysIdle
    /\ ClassifierIdle
    /\ \E rows \in TablesOver(VisualRows) :
          db = [channels |-> {"chemed", "lobelia"}, messages |-> WithMessageIds(rows)]
    /\ reply = NoReply
    /\ PipelineIdle
    /\ RaceIdle /\ LoaderIdle /\ YoloIdle /\ ResultsIdle

NextVisual ==
    \E self \in Instances, start_age \in AgeBounds, channel \in VisualChannelFilters :
        GetVisualContentStats(self, start_age, <<>>, channel)

SpecVisual == InitVisual /\ [][NextVisual]_vars

InitDashboard ==
    /\ now = 0
    /\ store = EmptyStore
    /\ redis_client = get_redis_client(TRUE)
    /\ LimiterIdle
    /\ FacadeIdle
    /\ KeysIdle
    /\ ClassifierIdle
    /\ \E rows \in TablesOver(DashboardRows), avg_views \in AvgViewsCases :
          db = [channels |-> DashboardChannels, avg_views |-> avg_views,
                messages |-> WithMessageIds(rows)]
    /\ reply = NoReply
    /\ PipelineIdle
    /\ RaceIdle /\ LoaderIdle /\ YoloIdle /\ ResultsIdle

NextDashboard ==
    \E self \in Instances, truncates \in BOOLEAN : GetAnalyticsDashboard(self, truncates)

SpecDashboard == InitDashboard /\ [][NextDashboard]_vars

InitPipeline ==
    /\ now = 0
    /\ store = EmptyStore
    /\ redis_client = get_redis_client(TRUE)
    /\ LimiterIdle
    /\ FacadeIdle
    /\ KeysIdle
    /\ ClassifierIdle
    /\ QueryIdle
    /\ ops = [o \in OpNames |-> [state |-> "pending", runs |-> 0]]
    /\ outputs = [o \in OpNames |-> NoOutput]
    /\ RaceIdle /\ LoaderIdle /\ YoloIdle /\ ResultsIdle

NextPipeline ==
    \/ \E o \in OpNames : StartOp(o)
    \/ \E outcome \in StageOutcomes, stdout \in ScraperStdout :
          ScrapeTelegramData(outcome, stdout)
    \/ \E outcome \in StageOutcomes : LoadRawToPostgres(outcome)
    \/ \E outcome \in StageOutcomes : RunDbtTransformations(outcome)
    \/ \E outcome \in StageOutcomes : RunYoloEnrichment(outcome)
    \/ ValidatePipelineResults
    \/ Tick

SpecPipeline == InitPipeline /\ [][NextPipeline]_vars

InitRace ==
    /\ EnvInit
    /\ LimiterInit
    /\ FacadeIdle
    /\ KeysIdle
    /\ ClassifierIdle
    /\ QueryIdle
    /\ PipelineIdle
    /\ inflight = [r \in Requests |-> [pc |-> "new", status |-> 0, win |-> -1]]
    /\ LoaderIdle /\ YoloIdle /\ ResultsIdle

NextRace ==
    \/ \E r \in Requests, failGet, failSet \in BOOLEAN : Enter(r, failGet, failSet)
    \/ \E r \in Requests : Respond(r)
    \/ Tick

SpecRace == InitRace /\ [][NextRace]_vars

InitYolo ==
    /\ now = 0
    /\ store = EmptyStore
    /\ redis_client = get_redis_client(TRUE)
    /\ LimiterIdle
    /\ FacadeIdle
    /\ KeysIdle
    /\ ClassifierIdle
    /\ QueryIdle
    /\ PipelineIdle
    /\ RaceIdle /\ LoaderIdle /\ YoloIdle /\ ResultsIdle

NextYolo ==
    \/ \E path \in UNION {StepPaths[n] : n \in DOMAIN StepPaths} : RunStep(path)
    \/ RunReturns

SpecYolo == InitYolo /\ [][NextYolo]_vars

InitLoader ==
    /\ now = 0
    /\ store = EmptyStore
    /\ redis_client = get_redis_client(TRUE)
    /\ LimiterIdle
    /\ FacadeIdle
    /\ KeysIdle
    /\ ClassifierIdle
    /\ QueryIdle
    /\ PipelineIdle
    /\ RaceIdle
    /\ raw_table = EmptyTable
    /\ load_ret = <<>>
    /\ YoloIdle /\ ResultsIdle

NextLoader == \E json_file \in JsonFiles : LoadJsonFile(json_file)

SpecLoader == InitLoader /\ [][NextLoader]_vars

NextResults ==
    \E cell \in DetectionCells, tieUp \in BOOLEAN : LoadAndClassifyRow(cell, tieUp)

SpecResults == InitClassifier /\ [][NextResults]_vars

\* ------------------------------------------------------------------ claims
Handled == resp.status # 0 /\ resp.path \notin ExemptPaths

\* C1: with the cache backend available (the Redis server reachable, so that
\* database.redis_client is a client, and no call failing in the window) and
\* requests handled one after another, the first `limit` non-exempt requests
\* of a (client, endpoint) pair in a window are admitted, request limit+1 of
\* that window is rejected with 429, and the first request of the next window
\* is admitted again.
C1_WindowLimit ==
    (Handled /\ redis_client # RedisNone /\ resp.clean) =>
        /\ (resp.nth <= limit => resp.status = 200)
        /\ (resp.nth = limit + 1 => resp.status = 429)

\* C2: the limiter fails open: a request handled while the middleware's
\* cache has no client, or while the backend's get and set fail, is passed to
\* the next handler and is not rejected with 429, however many requests the
\* window has seen.
C2_FailOpen ==
    (Handled /\ (~is_available(mw_redis) \/ (resp.failGet /\ resp.failSet))) =>
        resp.status = 200

C2_Witness ==
    /\ Handled
    /\ redis_client = RedisNone
    /\ ~is_available(mw_redis)
    /\ resp.nth = limit + 1
    /\ resp.status = 200

\* C3: every response to a non-exempt request carries limit, remaining and
\* reset; an admitted request has remaining = limit - count - 1 >= 0, a
\* rejected one remaining = 0, and reset = (window index + 1) * window.
C3_HeadersOnEveryResponse ==
    Handled =>
        /\ Len(resp.hdr) = 3
        /\ resp.hdr[1] = limit
        /\ resp.hdr[3] = (resp.win + 1) * window
        /\ (resp.status = 200 =>
               /\ resp.count # NoCount
               /\ resp.hdr[2] = limit - resp.count[1] - 1
               /\ resp.hdr[2] >= 0)
        /\ (resp.status # 200 => resp.status = 429 /\ resp.hdr[2] = 0)

\* C5: cache facade round trip: with the backend available, get(k) returns
\* the value of the last successful set(k, v, ttl) while its TTL has not
\* elapsed, and None after the TTL, for a key never set and for a deleted key.
C5_RoundTrip ==
    (ret.op = "get" /\ is_available(svc_redis) /\ ~ret.failed) =>
        ret.val = IF ret.hit THEN ret.memo ELSE PyNone

DefaultOf(op) ==
    CASE op = "get" -> PyNone
      [] op = "set" -> PyBool(FALSE)
      [] op = "delete" -> PyBool(FALSE)
      [] OTHER -> PyInt(0)

\* C6: no facade operation raises to its caller; with the backend absent or a
\* backend call failing, get returns None, set and delete return False,
\* clear_pattern returns 0 and the cache contents are unchanged; a function
\* wrapped by the caching decorator still returns its own computed result.
C6_NeverRaises ==
    /\ ~ret.raised
    /\ (ret.op \in {"get", "set", "delete", "clear_pattern"}
          /\ (~is_available(svc_redis) \/ ret.failed)) =>
            (ret.val = DefaultOf(ret.op) /\ ~ret.changed)
    /\ (ret.op = "cached" /\ ret.executed = 1) => ret.val = ret.result

C6_Witness ==
    /\ ret.op = "get"
    /\ is_available(svc_redis)
    /\ ret.failed
    /\ ret.hit
    /\ ret.val = PyNone
    /\ ~ret.raised

\* C7: identical logical calls get the same cache key: the key depends only
\* on the prefix, the positional values and the set of keyword pairs, also
\* for two calls of a @cached QueryService method made on different instances.
C7_SameKey ==
    (keys # <<>> /\ Logical(calls[1]) = Logical(calls[2])) => keys[1] = keys[2]

\* C8: the caching decorator: a call made after an earlier call with the same
\* arguments stored its result, and before the TTL elapsed, returns the stored
\* result without executing the function, whatever the result is; on a miss
\* the function is executed exactly once, its result is returned and, the
\* backend being available, stored under the key.
C8_Memoized ==
    ret.op = "cached" =>
        IF ret.hit
        THEN ret.executed = 0 /\ ret.val = ret.memo
        ELSE /\ ret.executed = 1
             /\ ret.val = ret.result
             /\ ((redis_client # RedisNone /\ ~ret.failed) => ret.stored)

\* C9: whenever no detection survives the filter (the empty list, confidences
\* below the threshold, classes outside the allow-list) analyze_detections
\* returns category "unknown", confidence_score 0.0 and the business tags
\* no_detections and low_confidence, and nothing else.
C9_UnknownWhenNothingSurvives ==
    (analysis # NoAnalysis /\ Relevant(detections_data) = {}) =>
        /\ analysis.category = "unknown"
        /\ analysis.confidence_score = 0
        /\ analysis.business_tags = {"no_detections", "low_confidence"}

C9_Witness ==
    /\ analysis # NoAnalysis
    /\ Len(detections_data) = 2
    /\ detections_data[1] = <<"person", 20>>
    /\ detections_data[2] = <<"car", 90>>
    /\ analysis.category = "unknown"
    /\ analysis.business_tags = {"no_detections", "low_confidence"}

Scored == overall # NotScored /\ Len(detections_data) > 0

\* C10 as stated: for a non-empty detection list with confidences in [0,1]
\* the overall confidence lies in [0,1] and is never below the mean confidence.
C10_NeverBelowMean ==
    Scored =>
        /\ overall[1] >= 0
        /\ overall[1] <= 1000
        /\ overall[1] * Len(detections_data) >= 10 * SumConfidence(detections_data)

\* C10 amended: the overall confidence lies in [0,1] and is below the mean
\* confidence by at most 0.0005, the rounding to 3 decimals.
C10_WithinRoundingOfMean ==
    Scored =>
        /\ overall[1] >= 0
        /\ overall[1] <= 1000
        /\ 2 * overall[1] * Len(detections_data) + Len(detections_data)
              >= 20 * SumConfidence(detections_data)

C10_Witness ==
    /\ Scored
    /\ detections_data = <<<<"person", 0>>, <<"person", 0>>, <<"person", 70>>>>
    /\ overall = <<233>>

\* The flags of the filtered detection list of the last analysis.
PersonSeen == "person" \in ClassesOf(analysis.detections)
ContainerSeen ==
    ClassesOf(analysis.detections) \cap {"bottle", "cup", "handbag", "wine glass"} # {}
FoodSeen ==
    ClassesOf(analysis.detections)
        \cap {"banana", "apple", "orange", "broccoli", "carrot"} # {}
SettingSeen == PersonSeen /\ ClassesOf(analysis.detections) \cap {"bed", "chair"} # {}

Taxonomy ==
    {"promotional", "product_display", "lifestyle", "ingredient_showcase",
     "medical_context", "before_after", "unknown"}

Categorized == analysis # NoAnalysis /\ Len(analysis.detections) > 0

\* C11: the category of a non-empty filtered detection list is the one of the
\* first matching rule of the ordered table: person and product container ->
\* promotional (0.8); product container without person -> product_display
\* (0.7); person without container and without medical setting -> lifestyle
\* (0.6); food -> ingredient_showcase (0.7); medical setting (person with
\* bed/chair) -> medical_context (0.6); at least 2 persons -> before_after
\* (0.5); otherwise unknown (0.3); the category is always one of the taxonomy.
C11_FirstMatchingRule ==
    Categorized =>
        /\ analysis.category \in Taxonomy
        /\ <<analysis.category, analysis.category_confidence>> =
              IF PersonSeen /\ ContainerSeen THEN <<"promotional", 80>>
              ELSE IF ContainerSeen THEN <<"product_display", 70>>
              ELSE IF PersonSeen /\ ~SettingSeen THEN <<"lifestyle", 60>>
              ELSE IF FoodSeen THEN <<"ingredient_showcase", 70>>
              ELSE IF SettingSeen THEN <<"medical_context", 60>>
              ELSE IF CountOf(analysis.detections, "person") >= 2
                   THEN <<"before_after", 50>>
              ELSE <<"unknown", 30>>

\* a bed without a person is no medical setting: the last rule applies
C11_Witness ==
    /\ Categorized
    /\ detections_data = <<<<"bed", 90>>, <<"dog", 30>>>>
    /\ analysis.category = "unknown"
    /\ analysis.category_confidence = 30

\* The matches in the messages in scope of the last get_top_products call.
ScopeMatches ==
    AllMatches(TopProductsQuery(db.messages, reply.timeframe, reply.channel))
Mentions(m, p) == Cardinality({i \in 1..Len(m) : m[i] = p})
FirstSeen(m, p) == CHOOSE i \in 1..Len(m) : m[i] = p /\ \A j \in 1..(i - 1) : m[j] # p
RanksBefore(m, q, p) ==
    \/ Mentions(m, q) > Mentions(m, p)
    \/ (Mentions(m, q) = Mentions(m, p) /\ FirstSeen(m, q) < FirstSeen(m, p))
\* threshold first, then order, then limit
Qualifying(m, min_mentions) == {p \in {m[i] : i \in 1..Len(m)} : Mentions(m, p) >= min_mentions}
Ranked(m, Q, i) == CHOOSE p \in Q : Cardinality({q \in Q : RanksBefore(m, q, p)}) = i - 1

TopProductsReturned == reply.op = "get_top_products" /\ ~reply.raised

\* C12: get_top_products returns the products of the messages in scope
\* ordered by mention count descending (equal counts in first-seen order), at
\* most `limit` of them and only those with count >= min_mentions, a count
\* being the number of pattern matches in the lower-cased texts; the list is
\* the one obtained by applying the threshold before the limit.
C12_TopProducts ==
    TopProductsReturned =>
        LET m == ScopeMatches
            Q == Qualifying(m, reply.min_mentions) IN
        /\ Len(reply.val) = Min(reply.limit, Cardinality(Q))
        /\ \A i \in 1..Len(reply.val) :
              /\ reply.val[i].product_name = StrTitle(Ranked(m, Q, i))
              /\ reply.val[i].mention_count = Mentions(m, Ranked(m, Q, i))
              /\ reply.val[i].mention_count >= reply.min_mentions
        /\ \A i, j \in 1..Len(reply.val) :
              i < j => reply.val[i].mention_count >= reply.val[j].mention_count

\* the example: Paracetamol is counted twice, Amoxicillin once
C12_Witness ==
    /\ TopProductsReturned
    /\ [i \in 1..Len(db.messages) |-> db.messages[i].text] =
          <<<<"Paracetamol", "500mg", "available">>, <<"paracetamol", "in", "stock">>,
            <<"Amoxicillin", "250mg">>>>
    /\ reply.min_mentions = 2
    /\ reply.timeframe = <<>>
    /\ reply.channel = <<>>
    /\ reply.val = <<[product_name |-> "Paracetamol", mention_count |-> 2]>>

\* C13: get_channel_activity called with a channel name that does not exist
\* ends with ValueError "Channel ... not found", raised after the channel
\* lookup and before any aggregation query; it returns no success result,
\* nothing is stored in the cache, and the exception reaches the caller as
\* the ValueError it is.
C13_NotFound ==
    (reply.op = "get_channel_activity" /\ reply.channel_name \notin db.channels) =>
        /\ reply.raised
        /\ reply.val = PyRaise("ValueError", "Channel " \o reply.channel_name \o " not found")
        /\ reply.queries = <<"channel">>
        /\ ~reply.stored
        /\ ~reply.changed

C13_Witness ==
    /\ reply.op = "get_channel_activity"
    /\ reply.channel_name = "lobelia"
    /\ db.channels = {"chemed"}
    /\ Len(db.messages) = 2
    /\ reply.raised
    /\ reply.val = PyRaise("ValueError", "Channel lobelia not found")

\* The matches of the search the last calls belong to, and their number T.
SearchMatches ==
    SearchWhere(db, reply.params.query, reply.params.channel, <<>>, <<>>)
IdsOf(results) == {results[i].message_id : i \in 1..Len(results)}

\* C14: for T messages matching the query and filters, page p with limit L
\* returns exactly min(L, max(0, T - (p-1)*L)) results, total_results is T for
\* every page, and the pages are disjoint slices of one ordering.
C14_Pagination ==
    reply.op = "search_messages" =>
        LET T == Cardinality(SearchMatches)
            L == reply.params.lim IN
        /\ \A p \in DOMAIN reply.pages :
              /\ Len(reply.pages[p].results) = Min(L, Max(0, T - (p - 1) * L))
              /\ reply.pages[p].total_count = T
        /\ \E ordering \in Orderings(SearchMatches) :
              \A p \in DOMAIN reply.pages :
                  \A i \in 1..Len(reply.pages[p].results) :
                      reply.pages[p].results[i].message_id
                          = ordering[(p - 1) * L + i].message_id

\* the counting half of C14 alone
C14_CountsOnly ==
    reply.op = "search_messages" =>
        LET T == Cardinality(SearchMatches)
            L == reply.params.lim IN
        \A p \in DOMAIN reply.pages :
            /\ Len(reply.pages[p].results) = Min(L, Max(0, T - (p - 1) * L))
            /\ reply.pages[p].total_count = T

SearchRequested == reply.op \in {"GET /search/messages", "GET /search/products"}

\* C15: on both endpoints that delegate to QueryService.search_messages the
\* service is never invoked with a query shorter than 2 characters after
\* trimming; such a query is rejected with a client-visible validation error
\* (400 or 422), never with a 500.
C15_ShortQueryRejected ==
    SearchRequested =>
        /\ (reply.delegated # NotDelegated => Len(Strip(reply.delegated[1])) >= 2)
        /\ (Len(Strip(reply.query)) < 2 => reply.status \in {400, 422})

\* The posts of channel c in the date range of the last visual-content call.
PostsInRange(c) ==
    LET start == IF reply.start_age = <<>> THEN DefaultActivityDays ELSE reply.start_age[1]
        end == IF reply.end_age = <<>> THEN 0 ELSE reply.end_age[1] IN
    {i \in 1..Len(db.messages) :
        /\ db.messages[i].channel = c
        /\ db.messages[i].age <= start
        /\ db.messages[i].age >= end}
Selected(c) == c \in db.channels /\ (reply.channel # <<>> => c = reply.channel[1])

\* C16: a channel with zero posts in the queried date range is reported with
\* image_percentage = 0 and no division error occurs; for every reported
\* channel image_percentage = posts_with_images / total_posts * 100 and lies
\* in [0, 100].
C16_ImagePercentage ==
    reply.op = "get_visual_content_stats" =>
        /\ ~reply.raised
        /\ \A c \in db.channels :
              (Selected(c) /\ PostsInRange(c) = {}) =>
                  \E s \in reply.val.channel_stats :
                      s.channel_name = c /\ s.image_percentage[1] = 0
        /\ \A s \in reply.val.channel_stats :
              /\ s.image_percentage[2] > 0
              /\ s.image_percentage[1] >= 0
              /\ s.image_percentage[1] <= 100 * s.image_percentage[2]
              /\ s.image_percentage[1] * s.total_posts
                    = 100 * s.posts_with_images * s.image_percentage[2]

\* C17: channel_performance holds at most 10 channels ordered by engagement
\* rate (total views / number of posts) descending, two channels with equal
\* engagement rate being ordered by total_views descending.
C17_ChannelRanking ==
    reply.op = "get_analytics_dashboard" =>
        LET cp == reply.val.channel_performance IN
        /\ Len(cp) <= 10
        /\ \A i, j \in 1..Len(cp) :
              i < j =>
                 LET left == cp[i].total_views * cp[j].message_count
                     right == cp[j].total_views * cp[i].message_count
                 IN left > right \/ (left = right /\ cp[i].total_views >= cp[j].total_views)

\* ----------------------------------------------------------- pipeline job
Started(o) == ops[o].state # "pending"
Finished(o) == ops[o].state = "finished"

Quiescent ==
    \A o \in OpNames :
        /\ ops[o].state # "running"
        /\ ~(ops[o].state = "pending" /\ \A u \in Upstream[o] : Finished(u))

\* C18: the job runs to completion whatever the stages do (script missing,
\* subprocess exiting non-zero, subprocess raising or timing out): no op
\* raises, every op that has returned has returned a status value, the run
\* cannot come to rest before validate_pipeline_results has executed, and its
\* output has pipeline_status in {SUCCESS, PARTIAL_SUCCESS, FAILED}.
C18_RunsToCompletion ==
    ops # <<>> =>
        /\ \A o \in OpNames : ops[o].state # "failed"
        /\ \A o \in OpNames \ {"validate_pipeline_results"} :
              Finished(o) => "status" \in DOMAIN outputs[o]
        /\ Quiescent => Finished("validate_pipeline_results")
        /\ Finished("validate_pipeline_results") =>
              outputs["validate_pipeline_results"].pipeline_status
                  \in {"SUCCESS", "PARTIAL_SUCCESS", "FAILED"}

C18_Witness ==
    /\ ops # <<>>
    /\ Finished("validate_pipeline_results")
    /\ outputs["scrape_telegram_data"].status = "error"
    /\ outputs["load_raw_to_postgres"].status = "error"
    /\ outputs["validate_pipeline_results"].pipeline_status = "FAILED"

\* C19: in every execution of the job, load starts only after scrape has
\* finished, dbt only after load has finished, YOLO only after scrape has
\* finished, validation only after both dbt and YOLO have finished, and each
\* op runs once: never twice, and once when the run has come to rest.
C19_StageOrdering ==
    ops # <<>> =>
        /\ Started("load_raw_to_postgres") => Finished("scrape_telegram_data")
        /\ Started("run_dbt_transformations") => Finished("load_raw_to_postgres")
        /\ Started("run_yolo_enrichment") => Finished("scrape_telegram_data")
        /\ Started("validate_pipeline_results") =>
              Finished("run_dbt_transformations") /\ Finished("run_yolo_enrichment")
        /\ \A o \in OpNames : ops[o].runs = (IF Started(o) THEN 1 ELSE 0)
        /\ Quiescent => \A o \in OpNames : ops[o].runs = 1

\* YOLO enrichment running while load is running, dbt not yet started
C19_Witness ==
    /\ ops # <<>>
    /\ ops["run_yolo_enrichment"].state = "running"
    /\ ops["load_raw_to_postgres"].state = "running"

\* ------------------------------------------------- before_after category
PersonCount(data) ==
    Cardinality({i \in 1..Len(data) :
                    data[i][1] = "person" /\ data[i][2] >= CONFIDENCE_THRESHOLD})

\* C20: the before_after category is reachable: some detection list with at
\* least two person detections at or above the threshold makes
\* analyze_detections return category before_after.  Stated of a classifier
\* that has not analysed anything yet: there is a list it can be handed.
C20_BeforeAfterReachable ==
    analysis = NoAnalysis =>
        \E data \in ListsOver(DetectionClasses \X DetectionConfidences), tieUp \in BOOLEAN :
            /\ PersonCount(data) >= 2
            /\ analyze_detections(data, tieUp).category = "before_after"

\* What the classifier does instead: no analysis it returns is before_after,
\* and one of two or more persons alone is lifestyle.
BeforeAfterNeverReturned ==
    /\ analysis.category # "before_after"
    /\ (analysis # NoAnalysis /\ PersonCount(detections_data) >= 2
           /\ \A i \in 1..Len(detections_data) : detections_data[i][1] = "person")
          => analysis.category = "lifestyle"

\* -------------------------------------------------- canonical unknown
\* C21: whenever analyze_detections returns category unknown, for an empty
\* list or for detections that match no rule of the decision table, the
\* result is the canonical one: confidence_score 0.0 and tags exactly
\* {no_detections, low_confidence}.
C21_CanonicalUnknown ==
    (analysis # NoAnalysis /\ analysis.category = "unknown") =>
        /\ analysis.confidence_score = 0
        /\ analysis.business_tags = {"no_detections", "low_confidence"}

\* ------------------------------------------------------ concurrent requests
Admitted(w) ==
    {r \in Requests : inflight[r].status = 200 /\ inflight[r].win = w}

\* the count stored under the rate key of window w
StoredCount(w) ==
    LET k == RateKey(RaceClient, RacePath, w) IN
    IF Live(store, now, k) THEN PickleLoads(store[k].data).val[2] ELSE 0

\* C22: under any interleaving of concurrent requests of one client to one
\* endpoint, the requests admitted in a window never outnumber the limit, and
\* the count stored for the current window is the number of requests
\* admitted in it.
C22_ConcurrentLimit ==
    inflight # <<>> =>
        \A w \in 0..MaxTime :
            /\ Cardinality(Admitted(w)) <= limit
            /\ (w = now \div window => StoredCount(w) = Cardinality(Admitted(w)))

\* ------------------------------------------------------- recommendations
DashboardReturned == reply.op = "get_analytics_dashboard"

Recommends(text) ==
    \E i \in 1..Len(reply.val.recommendations) :
        StrContains(text, reply.val.recommendations[i].message)

\* C23: whenever the share of messages with an image is below 0.3, a share of
\* exactly 0 included, the recommendations contain the increase-visual-content
\* message; whenever a channel has avg_views < 100 they contain the
\* content-strategy message naming at most 3 such channels; the list never
\* has more than 5 entries.
C23_Recommendations ==
    DashboardReturned =>
        LET recs == reply.val.recommendations
            n == Len(db.messages)
            withImage == Cardinality({i \in 1..n : db.messages[i].has_image})
        IN /\ (n > 0 /\ 10 * withImage < 3 * n) => Recommends("Increase visual content")
           /\ LowEngagement(db) # {} =>
                 \E i \in 1..Len(recs) :
                    /\ StrContains("content strategy", recs[i].message)
                    /\ Len(recs[i].channels) \in 1..3
                    /\ \A k \in 1..Len(recs[i].channels) :
                          recs[i].channels[k] \in LowEngagement(db)
           /\ Len(recs) <= 5

\* C23 without the share of exactly 0: holds of the code
RecommendationsAboveZero ==
    DashboardReturned =>
        LET recs == reply.val.recommendations
            n == Len(db.messages)
            withImage == Cardinality({i \in 1..n : db.messages[i].has_image})
        IN /\ (withImage > 0 /\ 10 * withImage < 3 * n) => Recommends("Increase visual content")
           /\ LowEngagement(db) # {} => Recommends("content strategy")
           /\ Len(recs) <= 5

\* ------------------------------------------------------------ peak hours
ActivityReturned == reply.op = "get_channel_activity" /\ ~reply.raised

\* the channel's messages dated within the requested range
InRange ==
    LET start == IF reply.start_age = <<>> THEN DefaultActivityDays ELSE reply.start_age[1]
        end == IF reply.end_age = <<>> THEN 0 ELSE reply.end_age[1]
    IN Filter(db.messages,
              {r \in {db.messages[i] : i \in 1..Len(db.messages)} :
                  r.channel = reply.channel_name /\ r.age <= start /\ r.age >= end})

\* C24: peak_hours lists at most 3 hours, those with the highest post counts
\* of the channel among the messages dated within the requested range, in
\* descending order of count; messages outside the range do not influence it.
C24_PeakHours ==
    ActivityReturned =>
        /\ Len(reply.val[2].peak_hours) <= 3
        /\ \E top \in TopHours(InRange) :
              reply.val[2].peak_hours = [i \in 1..Len(top) |-> top[i].hour]

\* ------------------------------------------------------------ time cutoff
\* the days a timeframe reaches back, <<>> for no cutoff
CutoffDays(timeframe) ==
    CASE timeframe = <<"day">> -> <<1>>
      [] timeframe = <<"week">> -> <<7>>
      [] timeframe = <<"month">> -> <<30>>
      [] OTHER -> <<>>

DatedWithin(rows, days) ==
    IF days = <<>> THEN rows
    ELSE Filter(rows, {r \in {rows[i] : i \in 1..Len(rows)} : r.age <= days[1]})

\* C25: timeframe 'week' counts only messages dated within the last 7 days,
\* 'month' only within the last 30 days, 'all' or no timeframe applies no
\* cutoff, and 'day' counts only messages dated within the last day: the
\* result is the one computed without a timeframe from the messages of the
\* period.
C25_TimeCutoff ==
    reply.op = "get_top_products" =>
        reply.val = get_top_products(DatedWithin(db.messages, CutoffDays(reply.timeframe)),
                                     reply.limit, <<>>, reply.channel, reply.min_mentions)

\* C25 for every timeframe but 'day': holds of the code
TimeCutoffExceptDay ==
    (reply.op = "get_top_products" /\ reply.timeframe # <<"day">>) => C25_TimeCutoff

\* ------------------------------------------------------ FinalYOLOPipeline
ReturnedTrue(i) == steps[i].returned = PyBool(TRUE)

\* C26: run executes its steps in the fixed order; once a step returns False
\* no later step is executed; run returns True if and only if every one of
\* its eight steps returned True.
C26_FixedOrder ==
    /\ Len(steps) <= Len(StepOrder)
    /\ \A i \in 1..Len(steps) : steps[i].name = StepOrder[i]
    /\ \A i \in 1..Len(steps) : steps[i].returned = PyBool(FALSE) => i = Len(steps)
    /\ run_ret = PyBool(TRUE) =>
          Len(steps) = Len(StepOrder) /\ \A i \in 1..Len(steps) : ReturnedTrue(i)
    /\ (run_ret # <<>> /\ Len(steps) = Len(StepOrder) /\ \A i \in 1..Len(steps) : ReturnedTrue(i))
          => run_ret = PyBool(TRUE)

\* the database load fails: run stops after four steps and returns False
C26_Witness ==
    /\ run_ret = PyBool(FALSE)
    /\ Len(steps) = 4
    /\ steps[4].returned = PyBool(FALSE)

\* -------------------------------------------------------------- raw loader
Loaded == raw_table # <<>> /\ load_ret # <<>>

\* C27: after any sequence of load_json_file calls the raw table holds at
\* most one row per (message_id, channel_name); loading a file whose messages
\* are already present leaves the table unchanged, the first loaded row being
\* kept; messages without a message_id are never inserted.
C27_Idempotent ==
    Loaded =>
        LET rows == raw_table.rows IN
        /\ \A i, j \in 1..Len(rows) :
              (rows[i].message_id = rows[j].message_id
                  /\ rows[i].channel_name = rows[j].channel_name) => i = j
        /\ load_ret.present => rows = load_ret.before
        /\ \A i \in 1..Len(rows) : rows[i].has_id
        /\ \A i \in 1..Len(load_ret.before) : rows[i] = load_ret.before[i]

\* What holds of the loader: one row per pair, no row without a message_id,
\* rows once committed are never changed or removed, and a call that finds
\* no open transaction and only messages already present changes nothing.
RawTableKeysUnique ==
    Loaded =>
        LET rows == raw_table.rows IN
        /\ \A i, j \in 1..Len(rows) :
              (rows[i].message_id = rows[j].message_id
                  /\ rows[i].channel_name = rows[j].channel_name) => i = j
        /\ \A i \in 1..Len(rows) : rows[i].has_id
        /\ \A i \in 1..Len(load_ret.before) : rows[i] = load_ret.before[i]
        /\ (load_ret.present /\ load_ret.clean) => rows = load_ret.before

\* C28: the count returned by load_json_file equals the number of rows the
\* call added to the raw table: messages that conflict with an existing row,
\* that lack a message_id or whose insert fails are not counted.
C28_CountIsRowsAdded ==
    Loaded => load_ret.returned = load_ret.added

\* ------------------------------------------------ load_and_classify_results
\* C29: load_and_classify_results classifies a row as analyze_detections
\* classifies the row's parsed detection list: person 0.9 with bottle 0.9 is
\* promotional, and only rows with no usable detection get unknown.
C29_SameAsAnalyze ==
    (enhanced # <<>> /\ enhanced.cell = "json") =>
        \E tieUp \in BOOLEAN :
            LET a == analyze_detections(detections_data, tieUp) IN
            /\ enhanced.category = a.category
            /\ enhanced.detection_count = Len(a.detections)
            /\ enhanced.confidence_score = a.confidence_score

\* What the function does: every row is the canonical unknown result
EveryRowUnknown ==
    enhanced # <<>> =>
        /\ enhanced.category = "unknown"
        /\ enhanced.detection_count = 0
        /\ enhanced.confidence_score = 0

\* ------------------------------------------------ validate_pipeline_results
\* The status a stage returned
StatusOf(o) == DictGet(outputs[o], "status", "")

\* The scrape or load stage returned status error, or the dbt or YOLO
\* subprocess exited non-zero (status Partial success) or raised (status error)
SomeStageFailed ==
    \/ StatusOf("scrape_telegram_data") = "error"
    \/ StatusOf("load_raw_to_postgres") = "error"
    \/ StatusOf("run_dbt_transformations") \in {"Partial success", "error"}
    \/ StatusOf("run_yolo_enrichment") \in {"Partial success", "error"}

\* C30: pipeline_status is SUCCESS only when no stage failed, and FAILED
\* exactly when both the dbt and the YOLO stage report an error.
C30_SuccessOnlyWhenNoStageFailed ==
    Finished("validate_pipeline_results") =>
        LET v == outputs["validate_pipeline_results"] IN
        /\ SomeStageFailed => v.pipeline_status \in {"PARTIAL_SUCCESS", "FAILED"}
        /\ v.pipeline_status = "FAILED" <=>
              /\ StatusOf("run_dbt_transformations") = "error"
              /\ StatusOf("run_yolo_enrichment") = "error"

\* What validation does report: it looks at the dbt and YOLO statuses only,
\* and only for the text error
StatusFromDbtAndYoloErrors ==
    Finished("validate_pipeline_results") =>
        LET v == outputs["validate_pipeline_results"]
            dbt_error == StatusOf("run_dbt_transformations") = "error"
            yolo_error == StatusOf("run_yolo_enrichment") = "error"
        IN /\ v.pipeline_status = "FAILED" <=> (dbt_error /\ yolo_error)
           /\ v.pipeline_status = "SUCCESS" <=> (~dbt_error /\ ~yolo_error)

====
